---------------------------- MODULE Spec2Model ----------------------------
(***************************************************************************)
(* Patent / M&A company-name matching pipeline.                            *)
(*                                                                         *)
(* Strings are sequences of one-character strings, so that trimming,       *)
(* word boundaries and substitutions are computed character by character.  *)
(* A missing spreadsheet cell (pandas NaN / None) is the value NA.         *)
(***************************************************************************)
EXTENDS Naturals, Integers, Sequences, FiniteSets, TLC

VARIABLES
    \* ---- stage 2: build_master_dictionary / save_dictionary / main ----
    files_list,      \* the ordered list of source paths handed to the build
    disk,            \* what is on disk at each path opened so far
    pc,              \* position of the running program
    cur,             \* index in files_list of the `for file_path` loop
    df_valid,        \* valid rows of the source being processed
    row,             \* index in df_valid of the `for idx, row` loop
    count_new, count_duplicate, count_conflict,
    master_dict,     \* Assignee_Original -> Original_Acquiror_Name
    source_stats,    \* per-source statistics, in processing order
    conflicts,       \* conflict records, in detection order
    logged,          \* per-source "processing complete" log lines (line 125)
    saved,           \* artifacts written by save_dictionary
    success,         \* return value of main (meaningful when pc = "done")
    \* ---- clean_company_name called on a name by stage 1, then by stage 4A ----
    n_input,         \* the name handed to clean_company_name
    n_pc,            \* "start", "once" (cleaned by stage 1), "again" (by stage 4A)
    n_once,          \* the clean_name stage 1 stores for n_input
    clean_acquiror,  \* the clean_acquiror stage 4A stores for n_input
    \* ---- one matching pass: perform_matching (stage 1) / stage 4A ----
    m_pc,            \* position in the pass
    tier_name,       \* "Tier 1", "Tier 2", "Tier 3" or "Compustat"
    names_main,      \* acquiror_name column of df_main / conm column of df_comp
    names_target,    \* assignee column of the tier / acquiror_name of df_ma_target
    acquiror_clean_list,   \* the candidates, in the order extractOne scans them
    df_target,       \* rows [assignee, clean_name] the pass iterates over
    m_row,           \* index of the running loop
    unmatched_list,  \* rows left over by the exact loop
    strict_res, fuzzy_res,
    matches_for_review, matches_auto,
    \* ---- stage 1: the tiers of the ranked summary table ----
    t_pc,            \* "ranked" (sorted), "cut" (Tier 1 sliced off), "tiered"
    df_summary,      \* the ranked entities, by patent_count descending
    top_5_idx,       \* length of the leading slice
    df_tier1, df_remaining, df_tier2, df_tier3,
    \* ---- the same query matched by two runs of stage 1 / stage 4A ----
    run_input,       \* [query, names, tier]: what both runs are given
    run_lists,       \* the candidate list each run so far has built
    run_results,     \* what each run so far has returned for the query
    \* ---- perform_matching: the worker pool of the approximate step ----
    machine_cores,   \* what cpu_count() returns on the machine
    n_cores,         \* number of workers / batches
    chunks,          \* the batches of unmatched rows, one per task
    task,            \* per task: "queued", "running" or "done"
    finished,        \* the tasks in the order in which they completed
    results,         \* per task: what fuzzy_match_batch returned
    \* ---- stage 1: validate_matches ----
    a_pc,            \* "call" (entered), "returned"
    df_matches,      \* the frame of match records handed to the function
    a_issues,        \* issues: the returned list of messages
    a_stats,         \* stats: the returned dict of statistics
    \* ---- stage 4B: the reviewed Compustat matches applied to the table ----
    f_pc,            \* position in main
    df_main,         \* the main table as read from PATH_MAIN
    verified_file,   \* the rows of the review file at PATH_VERIFIED
    df_comp,         \* the Compustat table
    acquiror_to_ids, \* Acquiror_Original -> identifiers of the reviewed match
    df_final,        \* the copy of the main table that is filled and saved
    f_row            \* index of the `for idx, row` loop over df_final

mergeVars == <<files_list, disk, pc, cur, df_valid, row, count_new,
               count_duplicate, count_conflict, master_dict, source_stats,
               conflicts, logged, saved, success>>

normVars == <<n_input, n_pc, n_once, clean_acquiror>>

matchVars == <<m_pc, tier_name, names_main, names_target, acquiror_clean_list,
               df_target, m_row, unmatched_list, strict_res, fuzzy_res,
               matches_for_review, matches_auto>>

tierVars == <<t_pc, df_summary, top_5_idx, df_tier1, df_remaining, df_tier2,
              df_tier3>>

runVars == <<run_input, run_lists, run_results>>

poolVars == <<machine_cores, n_cores, chunks, task, finished, results>>

auditVars == <<a_pc, df_matches, a_issues, a_stats>>

fillVars == <<f_pc, df_main, verified_file, df_comp, acquiror_to_ids, df_final,
              f_row>>

vars == <<mergeVars, normVars, matchVars, tierVars, runVars, poolVars,
          auditVars, fillVars>>

\* What the actions of one component leave alone.
notMerge == <<normVars, matchVars, tierVars, runVars, poolVars,
               auditVars, fillVars>>

notNorm == <<mergeVars, matchVars, tierVars, runVars, poolVars,
              auditVars, fillVars>>

notMatch == <<mergeVars, normVars, tierVars, runVars, poolVars,
               auditVars, fillVars>>

notTier == <<mergeVars, normVars, matchVars, runVars, poolVars,
              auditVars, fillVars>>

notRun == <<mergeVars, normVars, matchVars, tierVars, poolVars,
             auditVars, fillVars>>

notPool == <<mergeVars, normVars, tierVars, runVars,
              auditVars, fillVars>>

notAudit == <<mergeVars, normVars, matchVars, tierVars, runVars, poolVars,
              fillVars>>

notFill == <<mergeVars, normVars, matchVars, tierVars, runVars, poolVars,
             auditVars>>

(***************************************************************************)
(* Bounds of the model.                                                    *)
(***************************************************************************)
MaxFiles == 2        \* longest files_list
MaxRows  == 2        \* most rows on disk, over all source files
MaxPieces == 3       \* most fragments in a generated name
MaxWords == 2        \* most words in a name made of legal suffixes only
MaxCandidates == 2   \* most names in the acquiror / Compustat table
MaxTarget == 2       \* most rows a matching pass iterates over
MaxEntities == 21    \* most entities in the ranked summary table
MaxUnmatched == 101  \* most rows of a pass that takes the worker pool
MaxCores == 5        \* most cores of the machine
MaxBatch == 3        \* most match records handed to validate_matches
MaxMain == 2         \* most rows of the main table of stage 4B
MaxReviewed == 2     \* most rows of the review file of stage 4B

(***************************************************************************)
(* Generic helpers on sequences.                                           *)
(***************************************************************************)
Last(s) == s[Len(s)]

SeqsUpTo(S, n) == UNION { [1..k -> S] : k \in 0..n }

RECURSIVE SelectRows(_, _)
SelectRows(s, keep) ==
    IF s = <<>> THEN <<>>
    ELSE IF keep[1] THEN <<Head(s)>> \o SelectRows(Tail(s), Tail(keep))
         ELSE SelectRows(Tail(s), Tail(keep))

(***************************************************************************)
(* Python str.strip(): drop leading and trailing whitespace.               *)
(***************************************************************************)
Whitespace == {" ", "\t"}

RECURSIVE lstrip(_)
lstrip(s) == IF s # <<>> /\ Head(s) \in Whitespace THEN lstrip(Tail(s)) ELSE s

RECURSIVE rstrip(_)
rstrip(s) ==
    IF s # <<>> /\ Last(s) \in Whitespace
    THEN rstrip(SubSeq(s, 1, Len(s) - 1)) ELSE s

strip(s) == rstrip(lstrip(s))

\* A missing value (pandas NaN / None): never equal to a string.
NA == <<"<NA>">>

(***************************************************************************)
(* clean_company_name (stage 1, repeated verbatim in stage 4A).            *)
(***************************************************************************)
UpperLetters ==
    { "A", "B", "C", "D", "E", "F", "G", "H", "I", "J", "K", "L", "M",
      "N", "O", "P", "Q", "R", "S", "T", "U", "V", "W", "X", "Y", "Z" }

Digits == { "0", "1", "2", "3", "4", "5", "6", "7", "8", "9" }

LowerSeq ==
    << "a", "b", "c", "d", "e", "f", "g", "h", "i", "j", "k", "l", "m",
       "n", "o", "p", "q", "r", "s", "t", "u", "v", "w", "x", "y", "z",
       "é" >>

UpperSeq ==
    << "A", "B", "C", "D", "E", "F", "G", "H", "I", "J", "K", "L", "M",
       "N", "O", "P", "Q", "R", "S", "T", "U", "V", "W", "X", "Y", "Z",
       "É" >>

\* str.upper() on one character (ASCII letters and e-acute).
ToUpper(c) ==
    IF \E i \in 1..Len(LowerSeq) : LowerSeq[i] = c
    THEN UpperSeq[CHOOSE i \in 1..Len(LowerSeq) : LowerSeq[i] = c]
    ELSE c

upper(s) == [i \in 1..Len(s) |-> ToUpper(s[i])]

\* What the regex class \w matches on a Python str: letters of any script,
\* digits and the underscore.
WordChars ==
    UpperLetters \cup Digits \cup { LowerSeq[i] : i \in 1..Len(LowerSeq) }
    \cup { "_", "É" }

\* str.replace(old, new) for a one-character `old`.
RECURSIVE replace(_, _, _)
replace(s, old, new) ==
    IF s = <<>> THEN <<>>
    ELSE (IF Head(s) = old THEN new ELSE <<Head(s)>>)
         \o replace(Tail(s), old, new)

\* The regex assertion \b between s[k] and s[k+1].
IsWordAt(s, k) == k \in 1..Len(s) /\ s[k] \in WordChars

Boundary(s, k) == IsWordAt(s, k) # IsWordAt(s, k + 1)

\* A pattern \b<lit>\b or \b<lit>\.?\b: the length matched at position i
\* (the optional dot is tried first), or 0.
Pattern(lit, dot) == [lit |-> lit, optDot |-> dot]

MatchLen(s, i, pat) ==
    LET n == Len(pat.lit) IN
    IF ~(/\ i + n - 1 <= Len(s)
         /\ SubSeq(s, i, i + n - 1) = pat.lit
         /\ Boundary(s, i - 1))
    THEN 0
    ELSE IF pat.optDot /\ i + n <= Len(s) /\ s[i + n] = "." /\ Boundary(s, i + n)
         THEN n + 1
         ELSE IF Boundary(s, i + n - 1) THEN n ELSE 0

\* re.sub(pattern, repl, s): leftmost non-overlapping matches, left to right.
RECURSIVE ReSubFrom(_, _, _, _)
ReSubFrom(s, i, pat, repl) ==
    IF i > Len(s) THEN <<>>
    ELSE LET m == MatchLen(s, i, pat) IN
         IF m > 0 THEN repl \o ReSubFrom(s, i + m, pat, repl)
         ELSE <<s[i]>> \o ReSubFrom(s, i + 1, pat, repl)

ReSub(s, pat, repl) == ReSubFrom(s, 1, pat, repl)

\* The abbreviation table, in dictionary order.
abbreviations ==
    << [abbr |-> <<"I", "N", "T", "L">>,
        full |-> <<"I", "N", "T", "E", "R", "N", "A", "T", "I", "O", "N", "A", "L">>],
       [abbr |-> <<"N", "A", "T", "L">>,
        full |-> <<"N", "A", "T", "I", "O", "N", "A", "L">>],
       [abbr |-> <<"C", "O", "R", "P">>,
        full |-> <<"C", "O", "R", "P", "O", "R", "A", "T", "I", "O", "N">>],
       [abbr |-> <<"I", "N", "C">>,
        full |-> <<"I", "N", "C", "O", "R", "P", "O", "R", "A", "T", "E", "D">>],
       [abbr |-> <<"M", "F", "G">>,
        full |-> <<"M", "A", "N", "U", "F", "A", "C", "T", "U", "R", "I", "N", "G">>],
       [abbr |-> <<"T", "E", "C", "H">>,
        full |-> <<"T", "E", "C", "H", "N", "O", "L", "O", "G", "Y">>],
       [abbr |-> <<"S", "Y", "S">>,
        full |-> <<"S", "Y", "S", "T", "E", "M", "S">>] >>

\* The suffix patterns, in list order.
suffixes_priority ==
    << Pattern(<<"I", "N", "C", "O", "R", "P", "O", "R", "A", "T", "E", "D">>, FALSE),
       Pattern(<<"C", "O", "R", "P", "O", "R", "A", "T", "I", "O", "N">>, FALSE),
       Pattern(<<"C", "O", "M", "P", "A", "N", "Y">>, FALSE),
       Pattern(<<"L", "I", "M", "I", "T", "E", "D">>, FALSE),
       Pattern(<<"G", "R", "O", "U", "P">>, FALSE),
       Pattern(<<"C", "O", "R", "P">>, TRUE),
       Pattern(<<"I", "N", "C">>, TRUE),
       Pattern(<<"L", "T", "D">>, TRUE),
       Pattern(<<"C", "O">>, TRUE),
       Pattern(<<"L", ".", "L", ".", "C">>, TRUE),
       Pattern(<<"P", "L", "C">>, TRUE),
       Pattern(<<"L", "L", "C">>, FALSE),
       Pattern(<<"S", ".", "A", ".">>, FALSE),
       Pattern(<<"N", "V">>, FALSE),
       Pattern(<<"G", "M", "B", "H">>, FALSE),
       Pattern(<<"S", "A">>, FALSE),
       Pattern(<<"A", "G">>, FALSE),
       Pattern(<<"K", "K">>, FALSE) >>

\* Mutation of SymbolSubstitution: `&` becomes AND without the blanks.
SymbolSubstitutionNoBlanks(s) ==
    replace(replace(replace(s, "&", <<"A", "N", "D">>), "-", <<" ">>), "'", <<>>)

\* Step 1: name.replace('&', ' AND ').replace('-', ' ').replace("'", '')
SymbolSubstitution(s) ==
    replace(replace(replace(s, "&", <<" ", "A", "N", "D", " ">>), "-", <<" ">>), "'", <<>>)

\* Step 2: for abbr, full in abbreviations.items(): name = re.sub(abbr, full, name)
RECURSIVE ExpandAbbreviations(_, _)
ExpandAbbreviations(s, k) ==
    IF k > Len(abbreviations) \/ s = <<>> THEN s
    ELSE ExpandAbbreviations(
             ReSub(s, Pattern(abbreviations[k].abbr, FALSE), abbreviations[k].full),
             k + 1)

\* Step 3: for suffix in suffixes_priority: name = re.sub(suffix, '', name)
RECURSIVE StripSuffixes(_, _)
StripSuffixes(s, k) ==
    IF k > Len(suffixes_priority) \/ s = <<>> THEN s
    ELSE StripSuffixes(ReSub(s, suffixes_priority[k], <<>>), k + 1)

\* Step 4: re.sub(r'[^A-Z0-9\s]', ' ', name)
StripPunctuation(s) ==
    [i \in 1..Len(s) |->
        IF s[i] \in UpperLetters \cup Digits \cup Whitespace THEN s[i] ELSE " "]

\* Step 5: re.sub(r'\s+', ' ', name).strip()
RECURSIVE CollapseRuns(_)
CollapseRuns(s) ==
    IF s = <<>> THEN <<>>
    ELSE IF Head(s) \in Whitespace
         THEN <<" ">> \o CollapseRuns(lstrip(s))
         ELSE <<Head(s)>> \o CollapseRuns(Tail(s))

CollapseWhitespace(s) == strip(CollapseRuns(s))

\* clean_company_name(name); NA stands for any input that is missing or not
\* a string.
clean_company_name(name) ==
    IF name = NA THEN <<>>
    ELSE CollapseWhitespace(
             StripPunctuation(
                 StripSuffixes(
                     ExpandAbbreviations(
                         SymbolSubstitution(strip(upper(name))), 1), 1)))

RECURSIVE Concat(_)
Concat(ss) == IF ss = <<>> THEN <<>> ELSE Head(ss) \o Concat(Tail(ss))

RECURSIVE JoinWords(_)
JoinWords(ws) ==
    IF Len(ws) <= 1 THEN Concat(ws)
    ELSE Head(ws) \o <<" ">> \o JoinWords(Tail(ws))

(***************************************************************************)
(* rapidfuzz: fuzz.token_set_ratio and process.extractOne, as the matching *)
(* passes call them (scorer=fuzz.token_set_ratio, score_cutoff=threshold). *)
(* A similarity is a number of points in 0..100 with a fractional part; it *)
(* is held as an integer count of 1/ScoreUnit points, rounded down.        *)
(***************************************************************************)
ScoreUnit == 10000

Points(n) == n * ScoreUnit

Max(a, b) == IF a >= b THEN a ELSE b

\* str.split(): the maximal runs of non-whitespace characters.
RECURSIVE SplitFrom(_, _, _)
SplitFrom(s, word, acc) ==
    IF s = <<>> THEN (IF word = <<>> THEN acc ELSE Append(acc, word))
    ELSE IF Head(s) \in Whitespace
         THEN SplitFrom(Tail(s), <<>>,
                        IF word = <<>> THEN acc ELSE Append(acc, word))
         ELSE SplitFrom(Tail(s), Append(word, Head(s)), acc)

split(s) == SplitFrom(s, <<>>, <<>>)

TokenSet(s) == { split(s)[i] : i \in 1..Len(split(s)) }

\* Code-point order of the characters a clean name can hold.
OrdSeq ==
    << "0", "1", "2", "3", "4", "5", "6", "7", "8", "9" >> \o SubSeq(UpperSeq, 1, 26)

Ord(c) == CHOOSE i \in 1..Len(OrdSeq) : OrdSeq[i] = c

\* a < b as Python compares two str values.
RECURSIVE LessStr(_, _)
LessStr(a, b) ==
    IF b = <<>> THEN FALSE
    ELSE IF a = <<>> THEN TRUE
    ELSE IF Head(a) = Head(b) THEN LessStr(Tail(a), Tail(b))
    ELSE Ord(Head(a)) < Ord(Head(b))

\* sorted(tokens)
RECURSIVE SortTokens(_)
SortTokens(ts) ==
    IF ts = {} THEN <<>>
    ELSE LET least == CHOOSE x \in ts : \A y \in ts : x = y \/ LessStr(x, y)
         IN  <<least>> \o SortTokens(ts \ {least})

\* " ".join(sorted(tokens))
JoinSorted(ts) == JoinWords(SortTokens(ts))

\* Longest common subsequence, one row of the table at a time.
RECURSIVE LcsRow(_, _, _, _)
LcsRow(prev, ch, b, acc) ==
    IF Len(acc) = Len(b) + 1 THEN acc
    ELSE LET j == Len(acc) IN
         LcsRow(prev, ch, b,
                Append(acc, IF ch = b[j] THEN prev[j] + 1
                            ELSE Max(prev[j + 1], acc[j])))

\* The rows in turn; nothing is left to find once all of b is matched.
RECURSIVE LcsFrom(_, _, _, _)
LcsFrom(a, i, b, prev) ==
    IF i > Len(a) \/ prev[Len(b) + 1] = Len(b) THEN prev[Len(b) + 1]
    ELSE LcsFrom(a, i + 1, b, LcsRow(prev, a[i], b, <<0>>))

Lcs(a, b) == LcsFrom(a, 1, b, [j \in 1..(Len(b) + 1) |-> 0])

\* Insertions plus deletions needed to turn a into b.
indel_distance(a, b) == Len(a) + Len(b) - 2 * Lcs(a, b)

\* 100 - 100 * dist / lensum, or 0 when that is below the cutoff.
norm_distance(dist, lensum, score_cutoff) ==
    LET score == IF lensum > 0 THEN (Points(100) * (lensum - dist)) \div lensum
                 ELSE Points(100)
    IN  IF score >= score_cutoff THEN score ELSE 0

token_set_ratio(s1, s2, score_cutoff) ==
    LET tokens_a == TokenSet(s1)
        tokens_b == TokenSet(s2)
        intersect == tokens_a \cap tokens_b
        diff_ab == tokens_a \ tokens_b
        diff_ba == tokens_b \ tokens_a
        diff_ab_joined == JoinSorted(diff_ab)
        diff_ba_joined == JoinSorted(diff_ba)
        ab_len == Len(diff_ab_joined)
        ba_len == Len(diff_ba_joined)
        sect_len == Len(JoinSorted(intersect))
        sep == IF sect_len # 0 THEN 1 ELSE 0
        sect_ab_len == sect_len + sep + ab_len
        sect_ba_len == sect_len + sep + ba_len
        result == norm_distance(indel_distance(diff_ab_joined, diff_ba_joined),
                                sect_ab_len + sect_ba_len, score_cutoff)
        sect_ab_ratio == norm_distance(sep + ab_len, sect_len + sect_ab_len,
                                       score_cutoff)
        sect_ba_ratio == norm_distance(sep + ba_len, sect_len + sect_ba_len,
                                       score_cutoff)
    IN  IF s1 = <<>> \/ s2 = <<>> \/ tokens_a = {} \/ tokens_b = {} THEN 0
        ELSE IF intersect # {} /\ (diff_ab = {} \/ diff_ba = {}) THEN Points(100)
        ELSE IF sect_len = 0 THEN result
        ELSE Max(result, Max(sect_ab_ratio, sect_ba_ratio))

NoMatch == [found |-> FALSE, choice |-> <<>>, score |-> 0, index |-> 0]

\* Mutation of ExtractFrom: a later choice with an equal score replaces the
\* best so far, and the scan never ends early.
RECURSIVE ExtractLastFrom(_, _, _, _, _)
ExtractLastFrom(query, choices, k, best, score_cutoff) ==
    IF k > Len(choices) THEN best
    ELSE LET score == token_set_ratio(query, choices[k], score_cutoff)
             hit == [found |-> TRUE, choice |-> choices[k], score |-> score,
                     index |-> k - 1]
         IN  IF score >= score_cutoff
             THEN ExtractLastFrom(query, choices, k + 1, hit, score)
             ELSE ExtractLastFrom(query, choices, k + 1, best, score_cutoff)

\* process.extractOne: the choices in list order; a choice replaces the
\* best so far only with a strictly higher score; a score of 100 ends the
\* scan.
RECURSIVE ExtractFrom(_, _, _, _, _)
ExtractFrom(query, choices, k, best, score_cutoff) ==
    IF k > Len(choices) THEN best
    ELSE LET score == token_set_ratio(query, choices[k], score_cutoff)
             hit == [found |-> TRUE, choice |-> choices[k], score |-> score,
                     index |-> k - 1]
         IN  IF score >= score_cutoff /\ (~best.found \/ score > best.score)
             THEN IF score = Points(100) THEN hit
                  ELSE ExtractFrom(query, choices, k + 1, hit, score)
             ELSE ExtractFrom(query, choices, k + 1, best, score_cutoff)

\* Mutation of extractOne: the score_cutoff argument is ignored.
extractOneNoCutoff(query, choices, score_cutoff) ==
    ExtractFrom(query, choices, 1, NoMatch, 0)

extractOne(query, choices, score_cutoff) ==
    ExtractFrom(query, choices, 1, NoMatch, Points(score_cutoff))

(***************************************************************************)
(* Spreadsheet cells and source files of stage 2.                          *)
(***************************************************************************)
MkRow(a, t) == [Assignee_Original |-> a, Original_Acquiror_Name |-> t]

\* Rows a source file may hold: plain pairs, pairs that differ only by
\* surrounding blanks, a second target for the same assignee, and rows with
\* a missing or blank required field.
RowPool ==
    { MkRow(<<"X">>, <<"P">>),
      MkRow(<<"X">>, <<"Q">>),
      MkRow(<<" ", "X">>, <<"P", " ">>),
      MkRow(<<"Y">>, <<"Q">>),
      MkRow(NA, <<"P">>),
      MkRow(<<" ">>, <<"Q">>),
      MkRow(<<"X">>, <<" ">>) }

\* kind: "missing" (os.path.exists is false), "unreadable" (read_excel
\* raises), "nocolumn" (a required column is absent), "ok".
BadKinds == {"missing", "unreadable", "nocolumn"}

Contents ==
    { [kind |-> k, rows |-> <<>>] : k \in BadKinds }
    \cup { [kind |-> "ok", rows |-> r] : r \in SeqsUpTo(RowPool, MaxRows) }

PathA == <<"Step1_Manual_Review.xlsx">>
PathB == <<"out", "Step1_Auto_Results.xlsx">>
Paths == {PathA, PathB}

basename(p) == Last(p)

\* Mutation of IsValidRow: only dropna, the blank filters are forgotten.
IsValidRowDropnaOnly(r) ==
    /\ r.Assignee_Original # NA
    /\ r.Original_Acquiror_Name # NA

\* dropna(subset=required_cols) and the two `.str.strip() != ""` filters.
IsValidRow(r) ==
    /\ r.Assignee_Original # NA
    /\ r.Original_Acquiror_Name # NA
    /\ strip(r.Assignee_Original) # <<>>
    /\ strip(r.Original_Acquiror_Name) # <<>>

ValidRows(rows) == SelectRows(rows, [i \in 1..Len(rows) |-> IsValidRow(rows[i])])

\* The key and the value a valid row contributes.
RowKey(r) == strip(r.Assignee_Original)
RowTarget(r) == strip(r.Original_Acquiror_Name)

(***************************************************************************)
(* The three-way classification of one valid row against the mapping.      *)
(***************************************************************************)
IsNew(d, r) == RowKey(r) \notin DOMAIN d

\* Mutation of IsDuplicate: the stored target is compared with the cell as
\* read, not with its stripped form.
IsDuplicateUnstripped(d, r) ==
    RowKey(r) \in DOMAIN d /\ d[RowKey(r)] = r.Original_Acquiror_Name

IsDuplicate(d, r) == RowKey(r) \in DOMAIN d /\ d[RowKey(r)] = RowTarget(r)

\* Mutation of IsConflict: the stored target is compared with the cell as
\* read, not with its stripped form.
IsConflictUnstripped(d, r) ==
    RowKey(r) \in DOMAIN d /\ d[RowKey(r)] # r.Original_Acquiror_Name

IsConflict(d, r) == RowKey(r) \in DOMAIN d /\ d[RowKey(r)] # RowTarget(r)

\* Mutation of MergeRow: the latest row overwrites (last writer wins).
MergeRowOverwrite(d, r) ==
    [k \in DOMAIN d \cup {RowKey(r)} |->
        IF k = RowKey(r) THEN RowTarget(r) ELSE d[k]]

\* master_dict after the row: only a new key is written.
MergeRow(d, r) == IF IsNew(d, r) THEN d @@ (RowKey(r) :> RowTarget(r)) ELSE d

\* Mutation of ConflictRecord: the two targets change places.
ConflictRecordSwapped(d, r, path) ==
    [Assignee |-> RowKey(r),
     Existing_Acquiror |-> RowTarget(r),
     New_Acquiror |-> d[RowKey(r)],
     Source_File |-> path]

\* The dict appended to conflicts (lines 116-121).
ConflictRecord(d, r, path) ==
    [Assignee |-> RowKey(r),
     Existing_Acquiror |-> d[RowKey(r)],
     New_Acquiror |-> RowTarget(r),
     Source_File |-> path]

\* Mutation of LogConflict: every row whose key is already mapped is logged.
LogConflictOnAnyRepeat(cs, d, r, path) ==
    IF RowKey(r) \in DOMAIN d THEN Append(cs, ConflictRecord(d, r, path)) ELSE cs

\* conflicts after the row: one record per conflicting row.
LogConflict(cs, d, r, path) ==
    IF IsConflict(d, r) THEN Append(cs, ConflictRecord(d, r, path)) ELSE cs

StatsRecord(path, nvalid, n, dup, c) ==
    [File |-> basename(path), Valid_Rows |-> nvalid, New_Mappings |-> n,
     Duplicates |-> dup, Conflicts |-> c]

(***************************************************************************)
(* Stage 2 as a state machine.                                             *)
(***************************************************************************)
EmptyDict == [k \in {} |-> <<>>]

MergeInit ==
    /\ files_list \in SeqsUpTo(Paths, MaxFiles)
    /\ disk = [p \in {} |-> [kind |-> "missing", rows |-> <<>>]]
    /\ pc = "open"
    /\ cur = 1
    /\ df_valid = <<>>
    /\ row = 1
    /\ count_new = 0
    /\ count_duplicate = 0
    /\ count_conflict = 0
    /\ master_dict = EmptyDict
    /\ source_stats = <<>>
    /\ conflicts = <<>>
    /\ logged = <<>>
    /\ saved = {}
    /\ success = FALSE

RECURSIVE RowsIn(_, _)
RowsIn(d, ps) ==
    IF ps = {} THEN 0
    ELSE LET p == CHOOSE q \in ps : TRUE
         IN  Len(d[p].rows) + RowsIn(d, ps \ {p})

\* What the file system may answer for the current path: a path seen before
\* holds what it held then.
Offered ==
    IF files_list[cur] \in DOMAIN disk THEN {disk[files_list[cur]]}
    ELSE { c \in Contents :
             Len(c.rows) + RowsIn(disk, DOMAIN disk) <= MaxRows }

AtSource == pc = "open" /\ cur <= Len(files_list)

Reveal(c) ==
    disk' = IF files_list[cur] \in DOMAIN disk THEN disk
            ELSE disk @@ (files_list[cur] :> c)

\* Mutation of SkipSource: a bad source ends the loop (break, not continue).
SkipSourceAborts ==
    /\ AtSource
    /\ \E c \in Offered : c.kind \in BadKinds /\ Reveal(c)
    /\ cur' = Len(files_list) + 1
    /\ UNCHANGED <<files_list, pc, df_valid, row, count_new, count_duplicate,
                   count_conflict, master_dict, source_stats, conflicts,
                   logged, saved, success>>
    /\ UNCHANGED notMerge

\* `if not os.path.exists(file_path): continue`, the `except` branch of a
\* failed read_excel, and the missing-required-column `continue`.
SkipSource ==
    /\ AtSource
    /\ \E c \in Offered : c.kind \in BadKinds /\ Reveal(c)
    /\ cur' = cur + 1
    /\ UNCHANGED <<files_list, pc, df_valid, row, count_new, count_duplicate,
                   count_conflict, master_dict, source_stats, conflicts,
                   logged, saved, success>>
    /\ UNCHANGED notMerge

\* read_excel succeeded and both columns are there: filter the valid rows
\* and reset the three counters.
OpenSource ==
    /\ AtSource
    /\ \E c \in Offered :
          /\ c.kind = "ok"
          /\ Reveal(c)
          /\ df_valid' = ValidRows(c.rows)
    /\ pc' = "rows"
    /\ row' = 1
    /\ count_new' = 0
    /\ count_duplicate' = 0
    /\ count_conflict' = 0
    /\ UNCHANGED <<files_list, cur, master_dict, source_stats, conflicts,
                   logged, saved, success>>
    /\ UNCHANGED notMerge

\* One iteration of `for idx, row in df_valid.iterrows()`.
ProcessRow ==
    /\ pc = "rows"
    /\ row <= Len(df_valid)
    /\ LET r == df_valid[row] IN
          /\ master_dict' = MergeRow(master_dict, r)
          /\ conflicts' = LogConflict(conflicts, master_dict, r, files_list[cur])
          /\ count_new' = IF IsNew(master_dict, r) THEN count_new + 1 ELSE count_new
          /\ count_duplicate' = IF IsDuplicate(master_dict, r)
                                THEN count_duplicate + 1 ELSE count_duplicate
          /\ count_conflict' = IF IsConflict(master_dict, r)
                               THEN count_conflict + 1 ELSE count_conflict
    /\ row' = row + 1
    /\ UNCHANGED <<files_list, disk, pc, cur, df_valid, source_stats, logged,
                   saved, success>>
    /\ UNCHANGED notMerge

\* After the row loop: the completion log line and source_stats.append.
FinishSource ==
    /\ pc = "rows"
    /\ row > Len(df_valid)
    /\ logged' = Append(logged, [File |-> files_list[cur], New |-> count_new,
                                 Dup |-> count_duplicate, Conf |-> count_conflict])
    /\ source_stats' = Append(source_stats,
                              StatsRecord(files_list[cur], Len(df_valid), count_new,
                                          count_duplicate, count_conflict))
    /\ cur' = cur + 1
    /\ pc' = "open"
    /\ UNCHANGED <<files_list, disk, df_valid, row, count_new, count_duplicate,
                   count_conflict, master_dict, conflicts, saved, success>>
    /\ UNCHANGED notMerge

\* `return master_dict, source_stats, conflicts`
ReturnBuild ==
    /\ pc = "open"
    /\ cur > Len(files_list)
    /\ pc' = "save"
    /\ UNCHANGED <<files_list, disk, cur, df_valid, row, count_new,
                   count_duplicate, count_conflict, master_dict, source_stats,
                   conflicts, logged, saved, success>>
    /\ UNCHANGED notMerge

\* What save_dictionary writes for a non-empty mapping.
Artifacts(stats, cs) ==
    {"Master_Company_Dictionary.pkl", "Master_Company_Dictionary_VIEW.xlsx"}
    \cup (IF stats # <<>> THEN {"Dictionary_Build_Statistics.xlsx"} ELSE {})
    \cup (IF cs # <<>> THEN {"Dictionary_Conflicts.xlsx"} ELSE {})

\* Mutation of SaveSucceeds: the empty-mapping check is forgotten.
SaveSucceedsAlways(d) == TRUE

\* save_dictionary's verdict: an empty mapping is refused before anything
\* is written.
SaveSucceeds(d) == DOMAIN d # {}

\* main(): save_dictionary, then the summary, then the return value.
SaveDictionary ==
    /\ pc = "save"
    /\ saved' = IF SaveSucceeds(master_dict)
                THEN Artifacts(source_stats, conflicts) ELSE {}
    /\ success' = SaveSucceeds(master_dict)
    /\ pc' = "done"
    /\ UNCHANGED <<files_list, disk, cur, df_valid, row, count_new,
                   count_duplicate, count_conflict, master_dict, source_stats,
                   conflicts, logged>>
    /\ UNCHANGED notMerge

(***************************************************************************)
(* The components at rest (a specification runs one component).            *)
(***************************************************************************)
MergeIdle ==
    /\ files_list = <<>>
    /\ disk = [p \in {} |-> [kind |-> "missing", rows |-> <<>>]]
    /\ pc = "idle"
    /\ cur = 1
    /\ df_valid = <<>>
    /\ row = 1
    /\ count_new = 0
    /\ count_duplicate = 0
    /\ count_conflict = 0
    /\ master_dict = EmptyDict
    /\ source_stats = <<>>
    /\ conflicts = <<>>
    /\ logged = <<>>
    /\ saved = {}
    /\ success = FALSE

NormIdle ==
    /\ n_input = <<>>
    /\ n_pc = "idle"
    /\ n_once = <<>>
    /\ clean_acquiror = <<>>

TierIdle ==
    /\ t_pc = "idle"
    /\ df_summary = <<>>
    /\ top_5_idx = 0
    /\ df_tier1 = <<>>
    /\ df_remaining = <<>>
    /\ df_tier2 = <<>>
    /\ df_tier3 = <<>>

RunIdle ==
    /\ run_input = [query |-> <<>>, names |-> <<>>, tier |-> "Tier 3"]
    /\ run_lists = <<>>
    /\ run_results = <<>>

PoolIdle ==
    /\ machine_cores = 0
    /\ n_cores = 0
    /\ chunks = <<>>
    /\ task = <<>>
    /\ finished = <<>>
    /\ results = <<>>

AuditIdle ==
    /\ a_pc = "idle"
    /\ df_matches = <<>>
    /\ a_issues = <<>>
    /\ a_stats = EmptyDict

FillIdle ==
    /\ f_pc = "idle"
    /\ df_main = <<>>
    /\ verified_file = <<>>
    /\ df_comp = <<>>
    /\ acquiror_to_ids = EmptyDict
    /\ df_final = <<>>
    /\ f_row = 1

MatchIdle ==
    /\ m_pc = "idle"
    /\ tier_name = "Tier 3"
    /\ names_main = <<>>
    /\ names_target = <<>>
    /\ acquiror_clean_list = <<>>
    /\ df_target = <<>>
    /\ m_row = 1
    /\ unmatched_list = <<>>
    /\ strict_res = <<>>
    /\ fuzzy_res = <<>>
    /\ matches_for_review = <<>>
    /\ matches_auto = <<>>

(***************************************************************************)
(* Names handed to clean_company_name.                                     *)
(***************************************************************************)
\* Fragments of generated names: a letter, words of the two tables in
\* either case, and the characters the steps treat specially.
NamePieces ==
    { <<"A">>,
      <<"I", "n", "c">>,
      <<"C", "O">>,
      <<"T", "E", "C", "H">>,
      <<"S", ".", "A", ".">>,
      <<"_">>,
      <<" ">>,
      <<".">>,
      <<"é">>,
      <<"&">>,
      <<"-">>,
      <<"'">> }

GeneratedNames == { Concat(ps) : ps \in SeqsUpTo(NamePieces, MaxPieces) }

\* The legal suffixes as the specification lists them.
ListedSuffixes ==
    { <<"I", "N", "C", "O", "R", "P", "O", "R", "A", "T", "E", "D">>,
      <<"C", "O", "R", "P", "O", "R", "A", "T", "I", "O", "N">>,
      <<"C", "O", "M", "P", "A", "N", "Y">>,
      <<"L", "I", "M", "I", "T", "E", "D">>,
      <<"G", "R", "O", "U", "P">>,
      <<"C", "O", "R", "P", ".">>,
      <<"I", "N", "C", ".">>,
      <<"L", "T", "D", ".">>,
      <<"C", "O", ".">>,
      <<"L", ".", "L", ".", "C", ".">>,
      <<"P", "L", "C", ".">>,
      <<"L", "L", "C">>,
      <<"S", ".", "A", ".">>,
      <<"N", "V">>,
      <<"G", "M", "B", "H">>,
      <<"S", "A">>,
      <<"A", "G">>,
      <<"K", "K">> }

SuffixOnlyNames ==
    { JoinWords(ws) : ws \in SeqsUpTo(ListedSuffixes, MaxWords) \ {<<>>} }

AcmeCorp == <<"A", "c", "m", "e", " ", "C", "o", "r", "p", ".">>
ATTInc == <<"A", "T", "&", "T", " ", "I", "n", "c">>
OBrienSons == <<"O", "'", "B", "r", "i", "e", "n", " ", "&", " ", "S", "o", "n", "s", ",", " ", "L", "L", "C">>
AcmeTech == <<"A", "C", "M", "E", " ", "T", "E", "C", "H">>

ExampleNames == {AcmeCorp, ATTInc, OBrienSons, AcmeTech}

NormInputs == GeneratedNames \cup SuffixOnlyNames \cup ExampleNames \cup {NA}

NormInit ==
    /\ n_input \in NormInputs
    /\ n_pc = "start"
    /\ n_once = <<>>
    /\ clean_acquiror = <<>>

\* df['clean_name'] = df[...].apply(clean_company_name)
Normalize ==
    /\ n_pc = "start"
    /\ n_once' = clean_company_name(n_input)
    /\ n_pc' = "once"
    /\ UNCHANGED <<n_input, clean_acquiror>>
    /\ UNCHANGED notNorm

\* Stage 4A: df_ma_target['clean_acquiror'] =
\* df_ma_target['acquiror_name'].apply(clean_company_name). The column holds
\* the names as the main table has them, so the function is given the name
\* stage 1 was given, not the clean name stage 1 computed (stage 4A has its
\* own copy of the function, the same statements as stage 1's).
CleanAcquiror ==
    /\ n_pc = "once"
    /\ clean_acquiror' = clean_company_name(n_input)
    /\ n_pc' = "again"
    /\ UNCHANGED <<n_input, n_once>>
    /\ UNCHANGED notNorm

NormNext == Normalize \/ CleanAcquiror

(***************************************************************************)
(* One matching pass: perform_matching of stage 1 under the policy of a    *)
(* tier, and the Compustat pass of stage 4A.                               *)
(***************************************************************************)
AcmeName == <<"A", "C", "M", "E">>
AcmeTechnology == <<"A", "C", "M", "E", " ", "T", "E", "C", "H", "N", "O", "L", "O", "G", "Y">>
ZetaSystemInc == <<"Z", "e", "t", "a", " ", "S", "y", "s", "t", "e", "m", " ", "I", "n", "c">>
BareLLC == <<"L", "L", "C">>
ZetaSystems == <<"Z", "e", "t", "a", " ", "S", "y", "s", "t", "e", "m", "s">>
AcmeLabs == <<"A", "C", "M", "E", " ", "L", "A", "B", "S">>
LabsInc == <<"L", "a", "b", "s", " ", "I", "n", "c">>
BareInc == <<"I", "n", "c", ".">>

\* Names of the acquiror table (stage 1) / the Compustat table (stage 4A).
MainNames == {AcmeName, AcmeTechnology, ZetaSystemInc, LabsInc, BareLLC}

\* Names of patent assignees (stage 1) / M&A acquirors (stage 4A).
TargetNames == {AcmeTech, ZetaSystems, AcmeLabs, BareInc}

\* The decimal numeral of a natural number.
RECURSIVE Numeral(_)
Numeral(n) ==
    IF n < 10 THEN <<OrdSeq[n + 1]>>
    ELSE Append(Numeral(n \div 10), OrdSeq[(n % 10) + 1])

\* Assignee names of a pass large enough for the worker pool: numbered
\* branches of three companies.
BranchName(i) ==
    <<AcmeLabs, ZetaSystems, AcmeTech>>[(i % 3) + 1] \o <<" ">> \o Numeral(i)

BranchNames == { BranchName(i) : i \in 1..MaxUnmatched }

\* df[...].apply(clean_company_name), over the names of the two tables.
CleanTable ==
    [n \in MainNames \cup TargetNames \cup BranchNames |-> clean_company_name(n)]

Tiers == {"Tier 1", "Tier 2", "Tier 3"}

Passes == Tiers \cup {"Compustat"}

FUZZY_THRESHOLD == 90

\* Mutation of HasFuzzy: every pass has an approximate step.
HasFuzzyAlways(tier) == TRUE

\* Whether the pass has an approximate step (fuzzy_threshold is not None).
HasFuzzy(tier) == tier # "Tier 3"

\* The fuzzy_threshold argument of the tier's perform_matching call, and
\* stage 4A's constant.
fuzzy_threshold(tier) ==
    IF tier = "Tier 1" THEN 90
    ELSE IF tier = "Tier 2" THEN 100
    ELSE FUZZY_THRESHOLD

\* The Match_Type of an approximate record (the source writes the
\* greater-or-equal sign as one character).
FuzzyType(tier) ==
    IF tier = "Tier 1" THEN "Fuzzy (>=90)"
    ELSE IF tier = "Tier 2" THEN "Fuzzy (>=100)"
    ELSE "Fuzzy"

\* A match record. Stage 4A names the same columns Acquiror_Original,
\* Acquiror_Clean, Matched_Compustat_Clean and Score, and has no Tier.
MatchRecord(assignee, clean, matched, type, score, tier) ==
    [Assignee_Original |-> assignee, Assignee_Clean |-> clean,
     Matched_Acquiror_Clean |-> matched, Match_Type |-> type,
     Similarity |-> score, Tier |-> tier]

Range(s) == { s[i] : i \in 1..Len(s) }

IsInjective(s) == \A i, j \in 1..Len(s) : s[i] = s[j] => i = j

\* list(a_set): the elements of the set once each, in an order the
\* interpreter picks.
Orderings(S) == { q \in [1..Cardinality(S) -> S] : IsInjective(q) }

\* drop_duplicates (keep='first') on a column.
RECURSIVE DropDuplicates(_, _)
DropDuplicates(s, seen) ==
    IF s = <<>> THEN <<>>
    ELSE IF Head(s) \in seen THEN DropDuplicates(Tail(s), seen)
         ELSE <<Head(s)>> \o DropDuplicates(Tail(s), seen \cup {Head(s)})

\* The clean_name column of a column of names.
CleanColumn(names) == [i \in 1..Len(names) |-> CleanTable[names[i]]]

\* Stage 1: set(df_main['clean_name'].dropna().unique()).
\* Stage 4A: the clean_conm values other than "", duplicates dropped.
CandidateSet(tier, names) ==
    IF tier = "Compustat" THEN Range(CleanColumn(names)) \ {<<>>}
    ELSE Range(CleanColumn(names))

\* Stage 1: acquiror_clean_list = list(acquiror_clean_set).
\* Stage 4A: list(compustat_unique['clean_conm']), in file order.
CandidateLists(tier, names) ==
    IF tier = "Compustat"
    THEN { DropDuplicates(SelectSeq(CleanColumn(names), LAMBDA c : c # <<>>), {}) }
    ELSE Orderings(CandidateSet(tier, names))

acquiror_clean_set == Range(acquiror_clean_list)

\* The rows a tier hands to perform_matching come from df_summary: one row
\* per assignee, none with an empty clean name. Stage 4A iterates over the
\* M&A rows as they are.
TargetColumns(tier) ==
    IF tier = "Compustat" THEN SeqsUpTo(TargetNames, MaxTarget)
    ELSE { t \in SeqsUpTo(TargetNames, MaxTarget) :
             IsInjective(t) /\ \A i \in 1..Len(t) : CleanTable[t[i]] # <<>> }

\* Stage 1 drops duplicate acquiror_name values on loading df_main.
MainColumns(tier) ==
    IF tier = "Compustat" THEN SeqsUpTo(MainNames, MaxCandidates)
    ELSE { t \in SeqsUpTo(MainNames, MaxCandidates) : IsInjective(t) }

MatchInit ==
    /\ m_pc = "prepare"
    /\ tier_name \in Passes
    /\ names_main \in MainColumns(tier_name)
    /\ names_target \in TargetColumns(tier_name)
    /\ acquiror_clean_list = <<>>
    /\ df_target = <<>>
    /\ m_row = 1
    /\ unmatched_list = <<>>
    /\ strict_res = <<>>
    /\ fuzzy_res = <<>>
    /\ matches_for_review = <<>>
    /\ matches_auto = <<>>

\* The clean-name columns and the candidate set / list.
PrepareMatching ==
    /\ m_pc = "prepare"
    /\ df_target' = [i \in 1..Len(names_target) |->
                        [assignee |-> names_target[i],
                         clean_name |-> CleanTable[names_target[i]]]]
    /\ acquiror_clean_list' \in CandidateLists(tier_name, names_main)
    /\ m_pc' = "strict"
    /\ UNCHANGED <<tier_name, names_main, names_target, m_row, unmatched_list,
                   strict_res, fuzzy_res, matches_for_review, matches_auto>>
    /\ UNCHANGED notMatch

\* Stage 4A: `if not acquiror_clean: continue`.
Skipped(tier, r) == tier = "Compustat" /\ r.clean_name = <<>>

\* `if clean in acquiror_clean_set`
IsExact(tier, r, cands) == ~Skipped(tier, r) /\ r.clean_name \in cands

\* Mutation of Unmatched: every row is handed on to the approximate step.
UnmatchedKeepsAll(tier, r, cands) == ~Skipped(tier, r)

\* The `else` branch: the row goes to unmatched_list.
Unmatched(tier, r, cands) == ~Skipped(tier, r) /\ ~IsExact(tier, r, cands)

\* One iteration of the exact loop.
StrictStep ==
    /\ m_pc = "strict"
    /\ m_row <= Len(df_target)
    /\ LET r == df_target[m_row] IN
          /\ strict_res' =
                IF IsExact(tier_name, r, acquiror_clean_set)
                THEN Append(strict_res,
                            MatchRecord(r.assignee, r.clean_name, r.clean_name,
                                        "Strict", Points(100), tier_name))
                ELSE strict_res
          /\ unmatched_list' =
                IF Unmatched(tier_name, r, acquiror_clean_set)
                THEN Append(unmatched_list, r) ELSE unmatched_list
    /\ m_row' = m_row + 1
    /\ UNCHANGED <<m_pc, tier_name, names_main, names_target,
                   acquiror_clean_list, df_target, fuzzy_res,
                   matches_for_review, matches_auto>>
    /\ UNCHANGED notMatch

\* The use_parallel argument of the tier's perform_matching call.
use_parallel(tier) == tier \in {"Tier 1", "Tier 2"}

\* End of the exact loop: on to the approximate step when the pass has a
\* threshold and rows are left (to the worker pool when it is asked for and
\* more than 100 rows are left), otherwise to the end of the pass.
EndStrict ==
    /\ m_pc = "strict"
    /\ m_row > Len(df_target)
    /\ m_pc' = IF HasFuzzy(tier_name) /\ Len(unmatched_list) > 0
               THEN (IF use_parallel(tier_name) /\ Len(unmatched_list) > 100
                     THEN "parallel" ELSE "fuzzy")
               ELSE "route"
    /\ m_row' = 1
    /\ UNCHANGED <<tier_name, names_main, names_target, acquiror_clean_list,
                   df_target, unmatched_list, strict_res, fuzzy_res,
                   matches_for_review, matches_auto>>
    /\ UNCHANGED notMatch

\* One iteration of the sequential approximate loop.
FuzzyStep ==
    /\ m_pc = "fuzzy"
    /\ m_row <= Len(unmatched_list)
    /\ LET r == unmatched_list[m_row]
           match_result == extractOne(r.clean_name, acquiror_clean_list,
                                      fuzzy_threshold(tier_name))
       IN  fuzzy_res' =
              IF match_result.found
              THEN Append(fuzzy_res,
                          MatchRecord(r.assignee, r.clean_name,
                                      match_result.choice, FuzzyType(tier_name),
                                      match_result.score, tier_name))
              ELSE fuzzy_res
    /\ m_row' = m_row + 1
    /\ UNCHANGED <<m_pc, tier_name, names_main, names_target,
                   acquiror_clean_list, df_target, unmatched_list, strict_res,
                   matches_for_review, matches_auto>>
    /\ UNCHANGED notMatch

EndFuzzy ==
    /\ m_pc = "fuzzy"
    /\ m_row > Len(unmatched_list)
    /\ m_pc' = "route"
    /\ UNCHANGED <<tier_name, names_main, names_target, acquiror_clean_list,
                   df_target, m_row, unmatched_list, strict_res, fuzzy_res,
                   matches_for_review, matches_auto>>
    /\ UNCHANGED notMatch

\* Mutation of ReviewShare: the approximate matches of Tier 2 are dropped.
ReviewShareTier1Only(tier, strict, fuzzy) ==
    IF tier \in {"Tier 1", "Compustat"} THEN strict \o fuzzy ELSE <<>>

\* What the caller extends matches_for_review with.
ReviewShare(tier, strict, fuzzy) ==
    IF tier \in {"Tier 1", "Compustat"} THEN strict \o fuzzy
    ELSE IF tier = "Tier 2" THEN fuzzy
    ELSE <<>>

\* Mutation of AutoShare: the exact matches of every tier are accepted
\* automatically.
AutoShareEveryTier(tier, strict, fuzzy) ==
    IF tier \in Tiers THEN strict ELSE <<>>

\* What the caller extends matches_auto with.
AutoShare(tier, strict, fuzzy) ==
    IF tier \in {"Tier 2", "Tier 3"} THEN strict ELSE <<>>

\* What the caller does with (strict_res, fuzzy_res). Tier 1: both to the
\* review list. Tier 2: exact to the automatic list, approximate to the
\* review list. Tier 3: exact to the automatic list. Stage 4A writes every
\* match to the verification file, which is reviewed by hand.
RouteResults ==
    /\ m_pc = "route"
    /\ matches_for_review' =
          matches_for_review \o ReviewShare(tier_name, strict_res, fuzzy_res)
    /\ matches_auto' = matches_auto \o AutoShare(tier_name, strict_res, fuzzy_res)
    /\ m_pc' = "done"
    /\ UNCHANGED <<tier_name, names_main, names_target, acquiror_clean_list,
                   df_target, m_row, unmatched_list, strict_res, fuzzy_res>>
    /\ UNCHANGED notMatch

MatchNext ==
    \/ PrepareMatching
    \/ StrictStep
    \/ EndStrict
    \/ FuzzyStep
    \/ EndFuzzy
    \/ RouteResults

(***************************************************************************)
(* Stage 1: the ranked summary table is cut into three tiers.              *)
(***************************************************************************)
\* patent_count values on both sides of the Tier 2 / Tier 3 boundary.
CountValues == {0, 5, 6, 9}

\* The sequences of at most n of the values, largest first.
RECURSIVE DescendingSeqs(_, _)
DescendingSeqs(values, n) ==
    IF values = {} THEN {<<>>}
    ELSE LET top == CHOOSE v \in values : \A w \in values : v >= w
         IN  UNION { { [i \in 1..k |-> top] \o rest :
                         rest \in DescendingSeqs(values \ {top}, n - k) } :
                     k \in 0..n }

\* df_summary after sort_values(by='patent_count', ascending=False) and
\* reset_index: the entity at rank i is named by its rank.
RankedTables ==
    { [i \in 1..Len(counts) |-> [assignee |-> i, patent_count |-> counts[i]]] :
        counts \in DescendingSeqs(CountValues, MaxEntities) }

TierInit ==
    /\ t_pc = "ranked"
    /\ df_summary \in RankedTables
    /\ top_5_idx = 0
    /\ df_tier1 = <<>>
    /\ df_remaining = <<>>
    /\ df_tier2 = <<>>
    /\ df_tier3 = <<>>

\* Mutation of CutoffIndex: the 5% share is rounded up.
CutoffIndexCeiling(total_count) == (total_count * 5 + 99) \div 100

\* int(total_count * 0.05): the 5% share, truncated.
CutoffIndex(total_count) == (total_count * 5) \div 100

\* Mutation of InTier3: patent_count < 5.
InTier3Below(e) == e.patent_count < 5

\* df_remaining['patent_count'] > 5
InTier2(e) == e.patent_count > 5

\* df_remaining['patent_count'] <= 5
InTier3(e) == e.patent_count <= 5

\* top_5_idx, df_tier1 = df_summary.iloc[:top_5_idx],
\* df_remaining = df_summary.iloc[top_5_idx:]
CutTier1 ==
    /\ t_pc = "ranked"
    /\ top_5_idx' = CutoffIndex(Len(df_summary))
    /\ df_tier1' = SubSeq(df_summary, 1, CutoffIndex(Len(df_summary)))
    /\ df_remaining' = SubSeq(df_summary, CutoffIndex(Len(df_summary)) + 1,
                              Len(df_summary))
    /\ t_pc' = "cut"
    /\ UNCHANGED <<df_summary, df_tier2, df_tier3>>
    /\ UNCHANGED notTier

\* df_tier2 and df_tier3: the two boolean masks on df_remaining.
SplitRemaining ==
    /\ t_pc = "cut"
    /\ df_tier2' = SelectSeq(df_remaining, InTier2)
    /\ df_tier3' = SelectSeq(df_remaining, InTier3)
    /\ t_pc' = "tiered"
    /\ UNCHANGED <<df_summary, top_5_idx, df_tier1, df_remaining>>
    /\ UNCHANGED notTier

TierNext == CutTier1 \/ SplitRemaining

(***************************************************************************)
(* One query matched by two runs of the program on the same tables and     *)
(* under the same policy. Each run builds its own candidate list.          *)
(***************************************************************************)
\* What a pass returns for one row: the exact loop, then the approximate
\* step on a row the exact loop left over.
MatchOne(tier, clean, choices) ==
    IF clean # <<>> /\ clean \in Range(choices)
    THEN [found |-> TRUE, choice |-> clean, score |-> Points(100), index |-> 0]
    ELSE IF clean # <<>> /\ HasFuzzy(tier)
         THEN extractOne(clean, choices, fuzzy_threshold(tier))
         ELSE NoMatch

\* The matched candidate and the score, or nothing.
Outcome(result) ==
    IF result.found THEN <<result.choice, result.score>> ELSE <<>>

RunInit ==
    /\ run_input \in UNION { { [query |-> q, names |-> ns, tier |-> t] :
                                 q \in { n \in TargetNames : CleanTable[n] # <<>> },
                                 ns \in MainColumns(t) } :
                             t \in Passes }
    /\ run_lists = <<>>
    /\ run_results = <<>>

\* One run: the candidate list is built from the table, and the query is
\* matched against it.
RunOnce ==
    /\ Len(run_results) < 2
    /\ \E choices \in CandidateLists(run_input.tier, run_input.names) :
          /\ run_lists' = Append(run_lists, choices)
          /\ run_results' =
                Append(run_results,
                       Outcome(MatchOne(run_input.tier,
                                        CleanTable[run_input.query], choices)))
    /\ UNCHANGED run_input
    /\ UNCHANGED notRun

RunNext == RunOnce

(***************************************************************************)
(* perform_matching: the worker pool of the approximate step.              *)
(***************************************************************************)
\* The tables of acquiror names the pool's passes run against.
PoolMainColumns == { <<AcmeName, LabsInc>>, <<AcmeName, ZetaSystemInc>> }

\* process.extractOne(row['clean_name'], acquiror_list, scorer=
\* fuzz.token_set_ratio, score_cutoff=threshold), tabulated over the clean
\* names, candidate lists and thresholds of the pool's passes (@@ with the
\* empty function yields the table with every entry computed).
extractOneTable ==
    [query \in { CleanTable[n] : n \in BranchNames },
     choices \in UNION { CandidateLists("Tier 1", ns) : ns \in PoolMainColumns },
     threshold \in { fuzzy_threshold(t) : t \in {"Tier 1", "Tier 2"} } |->
        extractOne(query, choices, threshold)] @@ << >>

\* `if match_result: results.append({...})`: what one row adds to results.
Appended(r, match_result, tier) ==
    IF match_result.found
    THEN <<MatchRecord(r.assignee, r.clean_name, match_result.choice,
                       FuzzyType(tier), match_result.score, tier)>>
    ELSE <<>>

\* The records of the rows that added one, in row order.
Gathered(appended) ==
    LET hits == SelectSeq(appended, LAMBDA a : a # <<>>)
    IN  [k \in 1..Len(hits) |-> hits[k][1]]

\* fuzzy_match_batch: the approximate records of a batch, in row order.
fuzzy_match_batch(unmatched_chunk, acquiror_list, threshold, tier) ==
    Gathered([i \in 1..Len(unmatched_chunk) |->
                 Appended(unmatched_chunk[i],
                          extractOneTable[unmatched_chunk[i].clean_name,
                                          acquiror_list, threshold],
                          tier)])

Min(a, b) == IF a <= b THEN a ELSE b

\* min(cpu_count() - 1, 4)
WorkerCount(cores) == Min(cores - 1, 4)

\* np.array_split(rows, n): n contiguous sections, the first len % n of
\* them one row longer than the others.
array_split(rows, n) ==
    LET each == Len(rows) \div n
        extras == Len(rows) % n
        start(k) == (k - 1) * each + Min(k - 1, extras)
    IN  [k \in 1..n |-> SubSeq(rows, start(k) + 1, start(k + 1))]

RECURSIVE Flatten(_)
Flatten(lists) ==
    IF lists = <<>> THEN <<>> ELSE Head(lists) \o Flatten(Tail(lists))

\* Mutation of Collected: the batch results are taken in the order in which
\* the tasks completed.
CollectedAsFinished(batch_results, order) ==
    Flatten([k \in 1..Len(order) |-> batch_results[order[k]]])

\* pool.map's return value, extended onto fuzzy_res batch by batch.
Collected(batch_results, order) == Flatten(batch_results)

\* A pass of Tier 1 or Tier 2 over 100 to MaxUnmatched numbered branches.
PoolInit ==
    /\ m_pc = "prepare"
    /\ tier_name \in {"Tier 1", "Tier 2"}
    /\ names_main \in PoolMainColumns
    /\ \E n \in 100..MaxUnmatched : names_target = [i \in 1..n |-> BranchName(i)]
    /\ acquiror_clean_list = <<>>
    /\ df_target = <<>>
    /\ m_row = 1
    /\ unmatched_list = <<>>
    /\ strict_res = <<>>
    /\ fuzzy_res = <<>>
    /\ matches_for_review = <<>>
    /\ matches_auto = <<>>
    /\ machine_cores = 0
    /\ n_cores = 0
    /\ chunks = <<>>
    /\ task = <<>>
    /\ finished = <<>>
    /\ results = <<>>

\* cpu_count() is read here; n_cores, np.array_split and the args_list: one
\* task per batch.
Dispatch ==
    /\ m_pc = "parallel"
    /\ \E cores \in 1..MaxCores :
          /\ WorkerCount(cores) >= 1
          /\ machine_cores' = cores
          /\ n_cores' = WorkerCount(cores)
          /\ chunks' = array_split(unmatched_list, WorkerCount(cores))
          /\ task' = [k \in 1..WorkerCount(cores) |-> "queued"]
          /\ results' = [k \in 1..WorkerCount(cores) |-> <<>>]
    /\ m_pc' = "workers"
    /\ UNCHANGED <<tier_name, names_main, names_target, acquiror_clean_list,
                   df_target, m_row, unmatched_list, strict_res, fuzzy_res,
                   matches_for_review, matches_auto, finished>>
    /\ UNCHANGED notPool

\* np.array_split with no section raises ValueError; nothing catches it.
DispatchFails ==
    /\ m_pc = "parallel"
    /\ \E cores \in 1..MaxCores :
          /\ WorkerCount(cores) < 1
          /\ machine_cores' = cores
          /\ n_cores' = WorkerCount(cores)
    /\ m_pc' = "failed"
    /\ UNCHANGED <<tier_name, names_main, names_target, acquiror_clean_list,
                   df_target, m_row, unmatched_list, strict_res, fuzzy_res,
                   matches_for_review, matches_auto, chunks, task, finished,
                   results>>
    /\ UNCHANGED notPool

\* A worker process takes a task.
WorkerStart(k) ==
    /\ m_pc = "workers"
    /\ task[k] = "queued"
    /\ task' = [task EXCEPT ![k] = "running"]
    /\ UNCHANGED <<matchVars, machine_cores, n_cores, chunks, finished, results>>
    /\ UNCHANGED notPool

\* The worker returns from fuzzy_match_batch.
WorkerFinish(k) ==
    /\ m_pc = "workers"
    /\ task[k] = "running"
    /\ task' = [task EXCEPT ![k] = "done"]
    /\ finished' = Append(finished, k)
    /\ results' = [results EXCEPT ![k] =
                      fuzzy_match_batch(chunks[k], acquiror_clean_list,
                                        fuzzy_threshold(tier_name), tier_name)]
    /\ UNCHANGED <<matchVars, machine_cores, n_cores, chunks>>
    /\ UNCHANGED notPool

\* pool.map returns once every task is done; fuzzy_res.extend per batch.
Collect ==
    /\ m_pc = "workers"
    /\ \A k \in 1..Len(task) : task[k] = "done"
    /\ fuzzy_res' = fuzzy_res \o Collected(results, finished)
    /\ m_pc' = "route"
    /\ UNCHANGED <<tier_name, names_main, names_target, acquiror_clean_list,
                   df_target, m_row, unmatched_list, strict_res,
                   matches_for_review, matches_auto>>
    /\ UNCHANGED poolVars
    /\ UNCHANGED notPool

PoolNext ==
    \/ MatchNext
    \/ Dispatch
    \/ DispatchFails
    \/ \E k \in 1..Len(task) : WorkerStart(k)
    \/ \E k \in 1..Len(task) : WorkerFinish(k)
    \/ Collect

(***************************************************************************)
(* Stage 1: validate_matches, the quality checks on a frame of match       *)
(* records.                                                                *)
(***************************************************************************)
ThreeM == <<"3", "M">>

\* Records of the frame: two assignees, two acquirors, approximate matches
\* of Tier 1 and of Tier 2.
AuditRecords ==
    { MatchRecord(a, clean_company_name(a), CleanTable[c], FuzzyType(t),
                  Points(fuzzy_threshold(t)), t) :
        a \in {AcmeLabs, ThreeM}, c \in {AcmeName, LabsInc},
        t \in {"Tier 1", "Tier 2"} }

\* The values of a column in the rows of one group.
GroupValues(df, by, key, column) ==
    { df[i][column] : i \in { j \in 1..Len(df) : df[j][by] = key } }

\* Mutation of nunique: the number of rows of the group.
nuniqueRows(df, by, key, column) ==
    Cardinality({ j \in 1..Len(df) : df[j][by] = key })

\* SeriesGroupBy.nunique(): the number of distinct values in the group.
nunique(df, by, key, column) == Cardinality(GroupValues(df, by, key, column))

\* duplicates = df_matches.groupby('Assignee_Original')
\*                  ['Matched_Acquiror_Clean'].nunique()
duplicates(df) ==
    [a \in { df[i].Assignee_Original : i \in 1..Len(df) } |->
        nunique(df, "Assignee_Original", a, "Matched_Acquiror_Clean")]

\* one_to_many = duplicates[duplicates > 1]
one_to_many(df) == { a \in DOMAIN duplicates(df) : duplicates(df)[a] > 1 }

\* low_score = df_matches[df_matches['Similarity'] < 95]
low_score(df) == SelectSeq(df, LAMBDA r : r.Similarity < Points(95))

\* short_names = df_matches[df_matches['Assignee_Clean'].str.len() < 3]
short_names(df) == SelectSeq(df, LAMBDA r : Len(r.Assignee_Clean) < 3)

\* The smallest / largest Similarity of a frame with at least one row.
MinScore(df) ==
    CHOOSE x \in { df[i].Similarity : i \in 1..Len(df) } :
        \A i \in 1..Len(df) : x <= df[i].Similarity

MaxScore(df) ==
    CHOOSE x \in { df[i].Similarity : i \in 1..Len(df) } :
        \A i \in 1..Len(df) : x >= df[i].Similarity

\* df_matches['Similarity'].describe().to_dict(): the count, min and max
\* entries (mean, std and the quartiles are floating-point summaries that
\* no check reads).
score_distribution(df) ==
    [count |-> Len(df), min |-> MinScore(df), max |-> MaxScore(df)]

\* df_matches['Match_Type'].value_counts().to_dict()
match_type_dist(df) ==
    [t \in { df[i].Match_Type : i \in 1..Len(df) } |->
        Cardinality({ i \in 1..Len(df) : df[i].Match_Type = t })]

\* A message of the issues list: which check wrote it and the number it
\* carries (the texts are fixed sentences around that number).
Issue(check, count) == [check |-> check, count |-> count]

\* A dict entry when the check found something, no entry otherwise.
EntryIf(found, key, value) == IF found THEN key :> value ELSE EmptyDict

\* validate_matches(df_matches): the pair (issues, stats).
validate_matches(df) ==
    IF df = <<>> THEN [issues |-> <<>>, stats |-> EmptyDict]
    ELSE LET n_many == Cardinality(one_to_many(df))
             n_low == Len(low_score(df))
             n_short == Len(short_names(df))
         IN  [issues |->
                 (IF n_many > 0 THEN <<Issue("one_to_many", n_many)>> ELSE <<>>)
                 \o (IF n_low > 0 THEN <<Issue("low_score", n_low)>> ELSE <<>>)
                 \o (IF n_short > 0 THEN <<Issue("short_names", n_short)>>
                     ELSE <<>>),
              stats |->
                 EntryIf(n_many > 0, "one_to_many", n_many)
                 @@ ("score_distribution" :> score_distribution(df))
                 @@ EntryIf(n_low > 0, "low_score_count", n_low)
                 @@ EntryIf(n_short > 0, "short_names", n_short)
                 @@ ("match_types" :> match_type_dist(df))]

\* Every frame of up to MaxBatch records, the empty one included.
AuditInit ==
    /\ a_pc = "call"
    /\ df_matches \in SeqsUpTo(AuditRecords, MaxBatch)
    /\ a_issues = <<>>
    /\ a_stats = EmptyDict

\* issues, stats = validate_matches(df_all_matches)
Validate ==
    /\ a_pc = "call"
    /\ a_issues' = validate_matches(df_matches).issues
    /\ a_stats' = validate_matches(df_matches).stats
    /\ a_pc' = "returned"
    /\ UNCHANGED df_matches
    /\ UNCHANGED notAudit

AuditNext == Validate

(***************************************************************************)
(* Stage 4B: the reviewed Compustat matches are applied to the main table. *)
(* The three tables are the frames the reads of lines 60-96 returned.      *)
(***************************************************************************)
\* The identifier columns of the main table.
IdColumns == {"gvkey", "cusip", "cik", "compustat_name"}

\* pd.isna(value)
isna(value) == value = NA

\* An identifier of Compustat record n, and a value the main table
\* already holds.
CompId(letter, n) == <<letter, n>>

Held == <<"o", "l", "d">>

\* A row of the main table (a column the file lacks is added as None by
\* lines 147-149, so every row has the four identifier cells).
MainRow(name, gvkey, cusip, cik, compustat_name) ==
    [acquiror_name |-> name, gvkey |-> gvkey, cusip |-> cusip, cik |-> cik,
     compustat_name |-> compustat_name]

\* Rows of the main table: a reviewed or unreviewed acquiror or a blank
\* name, with no identifier, with a gvkey only, or with all four.
MainRowPool ==
    { MainRow(name, cells[1], cells[2], cells[2], cells[2]) :
        name \in {AcmeName, LabsInc, NA},
        cells \in { <<NA, NA>>, <<Held, NA>>, <<Held, Held>> } }

\* Rows of the review file written by stage 4A and edited by hand:
\* the acquiror is never blank, the match may have been blanked out.
VerifyRow(acquiror, matched) ==
    [Acquiror_Original |-> acquiror, Matched_Compustat_Original |-> matched]

VerifyRowPool ==
    { VerifyRow(AcmeName, AcmeTechnology), VerifyRow(AcmeName, ZetaSystems),
      VerifyRow(LabsInc, AcmeTechnology), VerifyRow(LabsInc, NA) }

\* A row of the Compustat table.
CompRow(conm, n) ==
    [conm |-> conm, gvkey |-> CompId("g", n), cusip |-> CompId("c", n),
     cik |-> CompId("k", n)]

\* Compustat tables: a company listed twice and a record without cik; a
\* record without conm and a table that lacks one of the matched names.
CompTables ==
    { << CompRow(AcmeTechnology, "1"), CompRow(AcmeTechnology, "2"),
         [CompRow(ZetaSystems, "3") EXCEPT !.cik = NA] >>,
      << CompRow(NA, "0"), CompRow(ZetaSystems, "3") >> }

\* Mutation of drop_duplicates: keep='last'.
drop_duplicates_last(df, subset) ==
    SelectSeq([k \in 1..Len(df) |-> <<k, df[k]>>],
              LAMBDA kr : \A j \in (kr[1] + 1)..Len(df) :
                             df[j][subset] # kr[2][subset])

\* DataFrame.drop_duplicates(subset=[column]): the first row of each value,
\* with its position.
drop_duplicates(df, subset) ==
    SelectSeq([k \in 1..Len(df) |-> <<k, df[k]>>],
              LAMBDA kr : \A j \in 1..(kr[1] - 1) :
                             df[j][subset] # kr[2][subset])

\* df_verify = pd.read_excel(...).drop_duplicates(subset=['Acquiror_Original'])
df_verify(file) ==
    LET kept == drop_duplicates(file, "Acquiror_Original")
    IN  [k \in 1..Len(kept) |-> kept[k][2]]

\* df_comp_unique: the rows with a conm, the first row of each conm.
df_comp_unique(comp) ==
    LET df_comp_clean == SelectSeq(comp, LAMBDA r : ~isna(r.conm))
        kept == drop_duplicates(df_comp_clean, "conm")
    IN  [k \in 1..Len(kept) |-> kept[k][2]]

\* One row of the left merge on Matched_Compustat_Original = conm: the
\* identifiers of the Compustat row of that name, missing values when there
\* is none (the right side has one row per conm and no blank conm).
MergedRow(v, comp_unique) ==
    LET hits == SelectSeq(comp_unique,
                          LAMBDA c : c.conm = v.Matched_Compustat_Original)
    IN  [Acquiror_Original |-> v.Acquiror_Original,
         Matched_Compustat_Original |-> v.Matched_Compustat_Original,
         gvkey |-> IF hits = <<>> THEN NA ELSE hits[1].gvkey,
         cusip |-> IF hits = <<>> THEN NA ELSE hits[1].cusip,
         cik |-> IF hits = <<>> THEN NA ELSE hits[1].cik]

\* df_verify_with_ids = pd.merge(df_verify, df_comp_unique[...], how='left')
df_verify_with_ids(verify, comp_unique) ==
    [k \in 1..Len(verify) |-> MergedRow(verify[k], comp_unique)]

\* The loop of lines 134-141: each row writes its entry, a later row of the
\* same name replacing an earlier one.
RECURSIVE IdsFrom(_, _)
IdsFrom(rows, d) ==
    IF rows = <<>> THEN d
    ELSE IdsFrom(Tail(rows),
                 (rows[1].Acquiror_Original :>
                     [gvkey |-> rows[1].gvkey, cusip |-> rows[1].cusip,
                      cik |-> rows[1].cik,
                      compustat_name |-> rows[1].Matched_Compustat_Original])
                 @@ d)

\* Lines 157-164: a cell is written only when it is blank.
FilledRow(r, ids) ==
    [c \in DOMAIN r |->
        IF c \in IdColumns /\ isna(r[c]) THEN ids[c] ELSE r[c]]

\* A review file of blank matches only is read as a column of numbers, on
\* which the merge with the names of Compustat is refused: the files here
\* hold at least one match.
FillInit ==
    /\ f_pc = "loaded"
    /\ df_main \in SeqsUpTo(MainRowPool, MaxMain)
    /\ verified_file \in { f \in SeqsUpTo(VerifyRowPool, MaxReviewed) :
                             \E k \in 1..Len(f) :
                                ~isna(f[k].Matched_Compustat_Original) }
    /\ df_comp \in CompTables
    /\ acquiror_to_ids = EmptyDict
    /\ df_final = <<>>
    /\ f_row = 1

\* Lines 74-141: the review rows without repeated acquirors, joined with
\* the identifiers of Compustat, as a dict keyed by the acquiror.
BuildIds ==
    /\ f_pc = "loaded"
    /\ acquiror_to_ids' =
          IdsFrom(df_verify_with_ids(df_verify(verified_file),
                                     df_comp_unique(df_comp)), EmptyDict)
    /\ f_pc' = "merged"
    /\ UNCHANGED <<df_main, verified_file, df_comp, df_final, f_row>>
    /\ UNCHANGED notFill

\* Lines 144-149: df_final = df_main.copy(), with the identifier columns.
CopyMain ==
    /\ f_pc = "merged"
    /\ df_final' = df_main
    /\ f_row' = 1
    /\ f_pc' = "fill"
    /\ UNCHANGED <<df_main, verified_file, df_comp, acquiror_to_ids>>
    /\ UNCHANGED notFill

\* One iteration of the loop of lines 152-164.
FillRow ==
    /\ f_pc = "fill"
    /\ f_row <= Len(df_final)
    /\ df_final' =
          IF df_final[f_row].acquiror_name \in DOMAIN acquiror_to_ids
          THEN [df_final EXCEPT ![f_row] =
                   FilledRow(@, acquiror_to_ids[@.acquiror_name])]
          ELSE df_final
    /\ f_row' = f_row + 1
    /\ UNCHANGED <<f_pc, df_main, verified_file, df_comp, acquiror_to_ids>>
    /\ UNCHANGED notFill

\* Lines 166-205: the loop is over, df_final is written to PATH_OUTPUT.
SaveFinal ==
    /\ f_pc = "fill"
    /\ f_row > Len(df_final)
    /\ f_pc' = "saved"
    /\ UNCHANGED <<df_main, verified_file, df_comp, acquiror_to_ids, df_final,
                   f_row>>
    /\ UNCHANGED notFill

FillNext == BuildIds \/ CopyMain \/ FillRow \/ SaveFinal

(***************************************************************************)
(* Stage 1, main from the ranked table to the end of the three passes: the *)
(* tiers are cut, the candidate list is built once, and perform_matching   *)
(* runs on Tier 1, Tier 2 and Tier 3 in turn.                              *)
(***************************************************************************)
\* Assignees at the head of the ranked table.
StageNames == {AcmeTech, AcmeLabs, ZetaSystems}

\* Acquiror tables of the run.
StageMainColumns ==
    { <<AcmeName, AcmeTechnology>>, <<AcmeTechnology, ZetaSystemInc>>,
      <<LabsInc, ZetaSystemInc>> }

\* A row of df_summary (lines 251-261): one row per assignee.
SummaryRow(assignee, patent_count) ==
    [assignee |-> assignee, clean_name |-> CleanTable[assignee],
     patent_count |-> patent_count]

\* Ranked tables of the run: up to MaxTarget of the assignees above with
\* counts on both sides of the Tier 2 / Tier 3 boundary, followed by
\* numbered branches with one patent each (enough rows for the 5% share to
\* hold one entity).
StageTables ==
    UNION { { [i \in 1..Len(names) |-> SummaryRow(names[i], counts[i])]
              \o [i \in 1..(MaxEntities - MaxTarget) |->
                     SummaryRow(BranchName(i), 1)] :
                counts \in { c \in DescendingSeqs({5, 6, 9}, MaxTarget) :
                               Len(c) = Len(names) } } :
            names \in { t \in SeqsUpTo(StageNames, MaxTarget) :
                          t # <<>> /\ IsInjective(t) } }

StageInit ==
    /\ t_pc = "ranked"
    /\ df_summary \in StageTables
    /\ top_5_idx = 0
    /\ df_tier1 = <<>>
    /\ df_remaining = <<>>
    /\ df_tier2 = <<>>
    /\ df_tier3 = <<>>
    /\ m_pc = "idle"
    /\ tier_name = "Tier 1"
    /\ names_main \in StageMainColumns
    /\ names_target = <<>>
    /\ acquiror_clean_list = <<>>
    /\ df_target = <<>>
    /\ m_row = 1
    /\ unmatched_list = <<>>
    /\ strict_res = <<>>
    /\ fuzzy_res = <<>>
    /\ matches_for_review = <<>>
    /\ matches_auto = <<>>

\* Mutation of TierFrame: the Tier 2 call is handed df_remaining.
TierFrameRemaining(tier) ==
    IF tier = "Tier 1" THEN df_tier1
    ELSE IF tier = "Tier 2" THEN df_remaining
    ELSE df_tier3

\* The frame each perform_matching call is handed (lines 371, 376, 381).
TierFrame(tier) ==
    IF tier = "Tier 1" THEN df_tier1
    ELSE IF tier = "Tier 2" THEN df_tier2
    ELSE df_tier3

\* The rows the loops of a pass read from the frame.
TargetRows(frame) ==
    [i \in 1..Len(frame) |->
        [assignee |-> frame[i].assignee, clean_name |-> frame[i].clean_name]]

\* Lines 285-298: the candidate set and list, the two empty result lists,
\* and the entry of the Tier 1 call.
StartMatching ==
    /\ t_pc = "tiered"
    /\ m_pc = "idle"
    /\ acquiror_clean_list' \in CandidateLists("Tier 1", names_main)
    /\ tier_name' = "Tier 1"
    /\ df_target' = TargetRows(TierFrame("Tier 1"))
    /\ names_target' = [i \in 1..Len(TierFrame("Tier 1")) |->
                           TierFrame("Tier 1")[i].assignee]
    /\ m_row' = 1
    /\ m_pc' = "strict"
    /\ UNCHANGED <<names_main, unmatched_list, strict_res, fuzzy_res,
                   matches_for_review, matches_auto>>
    /\ UNCHANGED <<tierVars, mergeVars, normVars, runVars, poolVars, auditVars,
                   fillVars>>

\* The call of the next tier (lines 376, 381): its own strict_res and
\* fuzzy_res, the candidate list and the two result lists of main.
NextTier ==
    /\ t_pc = "tiered"
    /\ m_pc = "done"
    /\ tier_name \in {"Tier 1", "Tier 2"}
    /\ LET next == IF tier_name = "Tier 1" THEN "Tier 2" ELSE "Tier 3" IN
          /\ tier_name' = next
          /\ df_target' = TargetRows(TierFrame(next))
          /\ names_target' = [i \in 1..Len(TierFrame(next)) |->
                                 TierFrame(next)[i].assignee]
    /\ m_row' = 1
    /\ unmatched_list' = <<>>
    /\ strict_res' = <<>>
    /\ fuzzy_res' = <<>>
    /\ m_pc' = "strict"
    /\ UNCHANGED <<names_main, acquiror_clean_list, matches_for_review,
                   matches_auto>>
    /\ UNCHANGED <<tierVars, mergeVars, normVars, runVars, poolVars, auditVars,
                   fillVars>>

StageNext ==
    \/ CutTier1
    \/ SplitRemaining
    \/ StartMatching
    \/ StrictStep
    \/ EndStrict
    \/ FuzzyStep
    \/ EndFuzzy
    \/ RouteResults
    \/ NextTier

MergeNext ==
    \/ SkipSource
    \/ OpenSource
    \/ ProcessRow
    \/ FinishSource
    \/ ReturnBuild
    \/ SaveDictionary

\* A run of stage 2.
Init == MergeInit /\ NormIdle /\ MatchIdle /\ TierIdle /\ RunIdle /\ PoolIdle
    /\ AuditIdle /\ FillIdle

Next == MergeNext

Spec == Init /\ [][Next]_vars

\* clean_company_name on every name of NormInputs, then on its result.
InitNorm == MergeIdle /\ NormInit /\ MatchIdle /\ TierIdle /\ RunIdle /\ PoolIdle
    /\ AuditIdle /\ FillIdle

SpecNorm == InitNorm /\ [][NormNext]_vars

\* One matching pass, for every policy and every choice of the two tables.
InitMatch == MergeIdle /\ NormIdle /\ MatchInit /\ TierIdle /\ RunIdle /\ PoolIdle
    /\ AuditIdle /\ FillIdle

SpecMatch == InitMatch /\ [][MatchNext]_vars

\* The tiering of every ranked table of up to MaxEntities entities.
InitTier == MergeIdle /\ NormIdle /\ MatchIdle /\ TierInit /\ RunIdle /\ PoolIdle
    /\ AuditIdle /\ FillIdle

SpecTier == InitTier /\ [][TierNext]_vars

\* Two runs on the same query, tables and policy.
InitRun == MergeIdle /\ NormIdle /\ MatchIdle /\ TierIdle /\ RunInit /\ PoolIdle
    /\ AuditIdle /\ FillIdle

SpecRun == InitRun /\ [][RunNext]_vars

\* A pass at the size where the worker pool is used, on every machine.
InitPool == MergeIdle /\ NormIdle /\ TierIdle /\ RunIdle /\ PoolInit
    /\ AuditIdle /\ FillIdle

SpecPool == InitPool /\ [][PoolNext]_vars

\* validate_matches on every frame of up to MaxBatch match records.
InitAudit == MergeIdle /\ NormIdle /\ MatchIdle /\ TierIdle /\ RunIdle /\ PoolIdle
    /\ AuditInit /\ FillIdle

SpecAudit == InitAudit /\ [][AuditNext]_vars

\* Stage 4B on every main table, review file and Compustat table above.
InitFill == MergeIdle /\ NormIdle /\ MatchIdle /\ TierIdle /\ RunIdle /\ PoolIdle
    /\ AuditIdle /\ FillInit

SpecFill == InitFill /\ [][FillNext]_vars

\* Stage 1 from the ranked table to the end of the Tier 3 pass.
InitStage == MergeIdle /\ NormIdle /\ StageInit /\ RunIdle /\ PoolIdle
    /\ AuditIdle /\ FillIdle

SpecStage == InitStage /\ [][StageNext]_vars

(***************************************************************************)
(* Properties of stage 2 (Dictionary Builder / Merger).                    *)
(***************************************************************************)
IsOk(i) == files_list[i] \in DOMAIN disk /\ disk[files_list[i]].kind = "ok"

\* Valid rows consumed so far, in (source order, row order).
RECURSIVE RowsOfFiles(_)
RowsOfFiles(n) ==
    IF n = 0 THEN <<>>
    ELSE RowsOfFiles(n - 1)
         \o (IF IsOk(n) THEN ValidRows(disk[files_list[n]].rows) ELSE <<>>)

Consumed ==
    IF pc = "rows" THEN RowsOfFiles(cur - 1) \o SubSeq(df_valid, 1, row - 1)
    ELSE RowsOfFiles(cur - 1)

FirstIndex(rows, k) ==
    CHOOSE i \in 1..Len(rows) :
        /\ RowKey(rows[i]) = k
        /\ \A j \in 1..(i - 1) : RowKey(rows[j]) # k

\* Index in source_stats (and in logged) of the i-th listed file, when ok.
StatIdx(i) == Cardinality({ j \in 1..i : IsOk(j) })

BuildOver == pc \in {"save", "done"}

\* C1 (state part): the mapping holds exactly the keys of the valid rows
\* consumed so far, each with the target of its first row.
C1_FirstRowTarget ==
    /\ DOMAIN master_dict = { RowKey(Consumed[i]) : i \in 1..Len(Consumed) }
    /\ \A k \in DOMAIN master_dict :
          master_dict[k] = RowTarget(Consumed[FirstIndex(Consumed, k)])

\* C1 (step part): no step modifies or removes an entry already inserted.
C1_EntriesKept ==
    \A k \in DOMAIN master_dict :
        k \in DOMAIN master_dict' /\ master_dict'[k] = master_dict[k]

\* C1: dictionary merge is first-writer-wins: every raw name of the mapping
\* carries the target of the first valid row with that name in (source
\* order, row order), and an inserted entry is never modified or removed.
C1_FirstWriterWins == [](C1_FirstRowTarget) /\ [][C1_EntriesKept]_vars

\* C1 witness: a later source offered another target for a key and the run
\* ended with the first target still in place.
C1_Witness ==
    /\ pc = "done"
    /\ files_list = <<PathA, PathB>>
    /\ <<"X">> \in DOMAIN master_dict
    /\ master_dict[<<"X">>] = <<"P">>
    /\ \E i \in 1..Len(disk[PathB].rows) :
          /\ IsValidRow(disk[PathB].rows[i])
          /\ RowKey(disk[PathB].rows[i]) = <<"X">>
          /\ RowTarget(disk[PathB].rows[i]) = <<"Q">>

\* The row about to be processed names a key mapped to another target.
ConflictingRowNext ==
    /\ pc = "rows"
    /\ row <= Len(df_valid)
    /\ strip(df_valid[row].Assignee_Original) \in DOMAIN master_dict
    /\ master_dict[strip(df_valid[row].Assignee_Original)]
          # strip(df_valid[row].Original_Acquiror_Name)

C2_Step ==
    IF ConflictingRowNext
    THEN /\ master_dict' = master_dict
         /\ conflicts' = Append(conflicts,
               [Assignee |-> strip(df_valid[row].Assignee_Original),
                Existing_Acquiror |->
                    master_dict[strip(df_valid[row].Assignee_Original)],
                New_Acquiror |-> strip(df_valid[row].Original_Acquiror_Name),
                Source_File |-> files_list[cur]])
    ELSE conflicts' = conflicts

OnlyRow(a, t) == [kind |-> "ok", rows |-> <<MkRow(a, t)>>]

C2_ScenarioRun ==
    /\ pc = "done"
    /\ files_list = <<PathA, PathB>>
    /\ disk[PathA] = OnlyRow(<<"X">>, <<"P">>)
    /\ disk[PathB] = OnlyRow(<<"X">>, <<"Q">>)

C2_Scenario ==
    C2_ScenarioRun =>
        /\ master_dict = (<<"X">> :> <<"P">>)
        /\ conflicts = << [Assignee |-> <<"X">>, Existing_Acquiror |-> <<"P">>,
                           New_Acquiror |-> <<"Q">>, Source_File |-> PathB] >>

\* C2: conflict policy: processing a row whose raw name is already mapped to
\* a different target leaves the mapping unchanged and appends exactly one
\* ConflictRecord {raw, existing, rejected, source} (no other step touches
\* the conflict log); for sources [A, B] with A: X -> P and B: X -> Q the
\* result is X -> P with exactly one ConflictRecord, naming B.
C2_ConflictPolicy == [][C2_Step]_vars /\ [](C2_Scenario)

\* C2 witness: the [A, B] scenario ran to the end.
C2_Witness == C2_ScenarioRun /\ Len(conflicts) = 1

\* Source i is immediately followed by an identical copy of itself, and both
\* passes are complete.
RepeatedPass(i) ==
    /\ i + 1 <= Len(files_list)
    /\ cur > i + 1
    /\ IsOk(i)
    /\ disk[files_list[i + 1]] = disk[files_list[i]]

\* C3 as stated: the second pass over an identical copy counts every valid
\* row as a Duplicate (the Duplicate count increases), and it leaves the
\* mapping (no New) and the Conflict count (no ConflictRecord) unchanged.
C3_Original ==
    \A i \in 1..Len(files_list) :
        RepeatedPass(i) =>
            LET b == source_stats[StatIdx(i + 1)] IN
                /\ b.Duplicates = b.Valid_Rows
                /\ b.New_Mappings = 0
                /\ b.Conflicts = 0

C3_SecondPassStats ==
    \A i \in 1..Len(files_list) :
        RepeatedPass(i) =>
            LET a == source_stats[StatIdx(i)]
                b == source_stats[StatIdx(i + 1)]
            IN  /\ b.Duplicates = a.New_Mappings + a.Duplicates
                /\ b.New_Mappings = 0
                /\ b.Conflicts = a.Conflicts

C3_SecondPassKeepsMapping ==
    (/\ pc = "rows"
     /\ cur >= 2
     /\ IsOk(cur - 1)
     /\ disk[files_list[cur]] = disk[files_list[cur - 1]])
        => master_dict' = master_dict

\* C3 (amended): re-processing an identical copy of a source right after it
\* leaves the mapping unchanged; every row that was New or Duplicate in the
\* first pass is a Duplicate in the second, and every row that conflicted in
\* the first pass conflicts again, so the second pass logs as many
\* ConflictRecords as the first (none only when the first logged none).
C3_Amended == [](C3_SecondPassStats) /\ [][C3_SecondPassKeepsMapping]_vars

\* C3 witness: a source with an inner conflict was processed twice.
C3_Witness ==
    /\ pc = "done"
    /\ RepeatedPass(1)
    /\ source_stats[1].New_Mappings = 1
    /\ source_stats[1].Conflicts = 1
    /\ source_stats[2].Duplicates = 1
    /\ Len(conflicts) = 2

\* C4: when the mapping is empty after all sources were processed, the run
\* ends with main returning failure and nothing written, and each source
\* that was processed has had its statistics line reported, in order.
C4_EmptyMappingFails ==
    (pc = "done" /\ DOMAIN master_dict = {}) =>
        /\ success = FALSE
        /\ saved = {}
        /\ Len(logged) = Cardinality({ i \in 1..Len(files_list) : IsOk(i) })
        /\ \A i \in 1..Len(files_list) :
              IsOk(i) =>
                  logged[StatIdx(i)] =
                      [File |-> files_list[i], New |-> 0, Dup |-> 0, Conf |-> 0]

\* C4 witness: a run over a processed source without any valid row.
C4_Witness ==
    /\ pc = "done"
    /\ DOMAIN master_dict = {}
    /\ success = FALSE
    /\ \E i \in 1..Len(files_list) : IsOk(i) /\ Len(disk[files_list[i]].rows) > 0

\* The source being opened is missing, unreadable or lacks a column.
C5_Skip ==
    (/\ pc = "open"
     /\ cur <= Len(files_list)
     /\ disk'[files_list[cur]].kind \in BadKinds)
        => /\ master_dict' = master_dict
           /\ conflicts' = conflicts
           /\ source_stats' = source_stats
           /\ logged' = logged
           /\ pc' = "open"
           /\ cur' = cur + 1

C5_AllSourcesVisited ==
    BuildOver =>
        /\ \A i \in 1..Len(files_list) : files_list[i] \in DOMAIN disk
        /\ Len(source_stats) = Cardinality({ i \in 1..Len(files_list) : IsOk(i) })

\* C5: a bad source (missing, unreadable, or without a required column) is
\* skipped as a whole, leaving mapping, conflict log and statistics as they
\* were, and every later source is still processed.
C5_BadSourceSkipped == [][C5_Skip]_vars /\ [](C5_AllSourcesVisited)

\* C5 witness: a bad source came first and the source after it was merged.
C5_Witness ==
    /\ pc = "done"
    /\ Len(files_list) = 2
    /\ ~IsOk(1)
    /\ IsOk(2)
    /\ DOMAIN master_dict # {}

\* A cell that is missing, empty or whitespace only.
Blank(cell) == cell = NA \/ \A i \in 1..Len(cell) : cell[i] \in Whitespace

BlankRow(r) == Blank(r.Assignee_Original) \/ Blank(r.Original_Acquiror_Name)

NonBlankCount(rows) == Cardinality({ i \in 1..Len(rows) : ~BlankRow(rows[i]) })

\* C6: a row whose raw name or target is missing or blank is skipped: it is
\* not inserted, not counted as New, Duplicate or Conflict, and produces no
\* ConflictRecord; no key or value of the mapping is an empty string.
C6_BlankRowsSkipped ==
    /\ \A k \in DOMAIN master_dict : k # <<>> /\ master_dict[k] # <<>>
    /\ \A i \in 1..Len(conflicts) :
          /\ conflicts[i].Assignee # <<>>
          /\ conflicts[i].New_Acquiror # <<>>
          /\ conflicts[i].Existing_Acquiror # <<>>
    /\ \A i \in 1..Len(files_list) :
          (IsOk(i) /\ cur > i) =>
              LET st == source_stats[StatIdx(i)] IN
                  /\ st.Valid_Rows = NonBlankCount(disk[files_list[i]].rows)
                  /\ st.New_Mappings + st.Duplicates + st.Conflicts
                        = NonBlankCount(disk[files_list[i]].rows)
    /\ Len(conflicts) + Cardinality(DOMAIN master_dict)
          <= Cardinality({ i \in 1..Len(Consumed) : ~BlankRow(Consumed[i]) })

\* C6 witness: a source holding a blank row and a valid row was processed.
C6_Witness ==
    /\ pc = "done"
    /\ \E i \in 1..Len(files_list) :
          /\ IsOk(i)
          /\ Len(disk[files_list[i]].rows) = 2
          /\ BlankRow(disk[files_list[i]].rows[1])
          /\ NonBlankCount(disk[files_list[i]].rows) = 1
          /\ source_stats[StatIdx(i)].New_Mappings = 1

(***************************************************************************)
(* Properties of clean_company_name (NameNormalizer), under SpecNorm.      *)
(***************************************************************************)
Cleaned == n_pc \in {"once", "again"}

\* C7: normalization is idempotent: clean_company_name given a name it
\* returned gives that name back, for every name cleaned (underscores,
\* digits, punctuation and non-ASCII letters next to abbreviation or suffix
\* words included). No stage calls the function on its own result; the
\* second application is that of the property.
C7_Idempotent == Cleaned => clean_company_name(n_once) = n_once

\* C8: a name made only of listed legal suffixes, alone or combined,
\* normalizes to the empty string.
C8_SuffixOnlyIsEmpty == (Cleaned /\ n_input \in SuffixOnlyNames) => n_once = <<>>

\* C9: the steps in their fixed order give "Acme Corp." -> "ACME",
\* "AT&T Inc" -> "AT AND T", "O'Brien & Sons, LLC" -> "OBRIEN AND SONS".
C9_Examples ==
    Cleaned =>
        /\ n_input = AcmeCorp => n_once = <<"A", "C", "M", "E">>
        /\ n_input = ATTInc => n_once = <<"A", "T", " ", "A", "N", "D", " ", "T">>
        /\ n_input = OBrienSons => n_once = <<"O", "B", "R", "I", "E", "N", " ", "A", "N", "D", " ", "S", "O", "N", "S">>

\* C9 witness: the third example has been cleaned.
C9_Witness ==
    /\ n_pc = "once"
    /\ n_input = OBrienSons
    /\ n_once = <<"O", "B", "R", "I", "E", "N", " ", "A", "N", "D", " ", "S", "O", "N", "S">>

(***************************************************************************)
(* Properties of a matching pass, under SpecMatch.                         *)
(***************************************************************************)
\* Every match record the pass has produced or handed on so far.
ProducedRecords ==
    Range(strict_res) \cup Range(fuzzy_res)
    \cup Range(matches_for_review) \cup Range(matches_auto)

\* The exact loop is over.
StrictOver == m_pc \in {"fuzzy", "route", "done"}

\* Rows whose clean name is one of the candidates.
MemberRows == { i \in 1..Len(df_target) :
                  df_target[i].clean_name \in acquiror_clean_set
                  /\ df_target[i].clean_name # <<>> }

\* C10: exactness. In every match record of every tier and of the
\* Compustat pass, the score is 100 and the kind is Strict exactly when the
\* clean source name equals the matched clean name; and a row whose clean
\* name is a member of the candidate set gets a Strict record with score
\* 100 and never an approximate one.
C10_Exactness ==
    /\ \A r \in ProducedRecords :
          (r.Similarity = Points(100) /\ r.Match_Type = "Strict")
          <=> (r.Assignee_Clean = r.Matched_Acquiror_Clean)
    /\ \A i \in MemberRows :
          /\ StrictOver =>
                \E r \in Range(strict_res) :
                   /\ r.Assignee_Original = df_target[i].assignee
                   /\ r.Matched_Acquiror_Clean = df_target[i].clean_name
                   /\ r.Match_Type = "Strict"
                   /\ r.Similarity = Points(100)
          /\ \A r \in ProducedRecords :
                r.Assignee_Original = df_target[i].assignee
                => r.Match_Type = "Strict"

\* C10 witness: "ACME TECH" against the candidates ACME and ACME TECHNOLOGY
\* has given a Strict record with score 100, and in the same pass another
\* row has an approximate record whose score is 100 too but whose two clean
\* names differ.
C10_Witness ==
    /\ m_pc = "done"
    /\ acquiror_clean_set = {AcmeName, AcmeTechnology}
    /\ \E r \in ProducedRecords :
          /\ r.Assignee_Original = AcmeTech
          /\ r.Matched_Acquiror_Clean = AcmeTechnology
          /\ r.Match_Type = "Strict"
          /\ r.Similarity = Points(100)
    /\ \E r \in ProducedRecords :
          /\ r.Match_Type # "Strict"
          /\ r.Similarity = Points(100)
          /\ r.Assignee_Clean # r.Matched_Acquiror_Clean

\* The approximate records produced or handed on so far.
FuzzyRecords == { r \in ProducedRecords : r.Match_Type # "Strict" }

\* C11: threshold respected. No approximate match record has a score below
\* the threshold of the pass that produced it: 90 for Tier 1 and for the
\* Compustat pass, 100 for Tier 2.
C11_ThresholdRespected ==
    \A r \in FuzzyRecords :
       /\ r.Tier \in {"Tier 1", "Compustat"} => r.Similarity >= Points(90)
       /\ r.Tier = "Tier 2" => r.Similarity >= Points(100)
       /\ r.Tier # "Tier 3"

\* C11 witness: a threshold-90 pass is over; one row has an approximate
\* record scored strictly between 90 and 100, and another row, whose best
\* candidate scores under 90, has no record.
C11_Witness ==
    /\ m_pc = "done"
    /\ \E r \in FuzzyRecords :
          r.Similarity > Points(90) /\ r.Similarity < Points(100)
    /\ \E i \in 1..Len(unmatched_list) :
          /\ \E c \in acquiror_clean_set :
                LET sc == token_set_ratio(unmatched_list[i].clean_name, c, 0)
                IN  sc > 0 /\ sc < Points(90)
          /\ \A r \in ProducedRecords :
                r.Assignee_Original # unmatched_list[i].assignee

(***************************************************************************)
(* Properties of the tiering, under SpecTier.                              *)
(***************************************************************************)
\* How many rows of a tier carry the entity.
TimesIn(tier, e) == Cardinality({ i \in 1..Len(tier) : tier[i] = e })

\* C12: tiers are exhaustive and disjoint. For every ranked table (ties at
\* the cutoff included) every entity is in exactly one of Tier 1, Tier 2,
\* Tier 3; Tier 1 is the leading slice of the descending ranking, and the
\* rest is split into Tier 2 (count > 5) and Tier 3 (count <= 5).
C12_TiersPartition ==
    t_pc = "tiered" =>
       /\ \A i \in 1..Len(df_summary) :
             TimesIn(df_tier1, df_summary[i]) + TimesIn(df_tier2, df_summary[i])
             + TimesIn(df_tier3, df_summary[i]) = 1
       /\ \A i \in 1..(Len(df_summary) - 1) :
             df_summary[i].patent_count >= df_summary[i + 1].patent_count
       /\ df_tier1 = SubSeq(df_summary, 1, Len(df_tier1))
       /\ \A i \in (Len(df_tier1) + 1)..Len(df_summary) :
             /\ df_summary[i].patent_count > 5 => TimesIn(df_tier2, df_summary[i]) = 1
             /\ df_summary[i].patent_count <= 5 => TimesIn(df_tier3, df_summary[i]) = 1

\* C12 witness: the three tiers are non-empty, the entity just after the
\* cutoff has the same count as the last Tier 1 entity, and an entity with
\* exactly 5 patents is in Tier 3.
C12_Witness ==
    /\ t_pc = "tiered"
    /\ df_tier1 # <<>> /\ df_tier2 # <<>> /\ df_tier3 # <<>>
    /\ df_summary[Len(df_tier1)].patent_count
          = df_summary[Len(df_tier1) + 1].patent_count
    /\ \E i \in 1..Len(df_tier3) : df_tier3[i].patent_count = 5

\* ceil(0.05 x N)
CeilFivePercent(n) == (n + 19) \div 20

\* C13 as stated: the number of Tier 1 entities is ceil(0.05 x N).
C13_Original == t_pc \in {"cut", "tiered"} => Len(df_tier1) = CeilFivePercent(Len(df_summary))

\* C13 amended: the number of Tier 1 entities is floor(0.05 x N); it is
\* ceil(0.05 x N) only when N is a multiple of 20, and one less otherwise
\* (Tier 1 is empty below 20 entities).
C13_Amended ==
    t_pc \in {"cut", "tiered"} =>
       /\ Len(df_tier1) = Len(df_summary) \div 20
       /\ top_5_idx = Len(df_tier1)
       /\ Len(df_summary) % 20 = 0 => Len(df_tier1) = CeilFivePercent(Len(df_summary))
       /\ Len(df_summary) % 20 # 0 => Len(df_tier1) = CeilFivePercent(Len(df_summary)) - 1

\* C13 witness: 21 entities, one of them in Tier 1 (the ceiling is 2).
C13_Witness ==
    /\ t_pc = "tiered"
    /\ Len(df_summary) = 21
    /\ Len(df_tier1) = 1

\* The pass is over and its results are routed.
PassDone(tier) == m_pc = "done" /\ tier_name = tier

\* How many records of a list belong to the assignee.
RecordsOf(list, assignee) ==
    Cardinality({ k \in 1..Len(list) : list[k].Assignee_Original = assignee })

\* C14: Tier 1 routing. Every match record of a Tier 1 entity, exact or
\* approximate (threshold 90), goes to the review list and none to the
\* automatic list; the approximate step is run only on the Tier 1 entities
\* without an exact match.
C14_Tier1Routing ==
    tier_name = "Tier 1" =>
       /\ matches_auto = <<>>
       /\ \A i \in 1..Len(unmatched_list) :
             unmatched_list[i].clean_name \notin acquiror_clean_set
       /\ \A r \in Range(fuzzy_res) :
             /\ \E i \in 1..Len(unmatched_list) :
                   unmatched_list[i].assignee = r.Assignee_Original
             /\ RecordsOf(strict_res, r.Assignee_Original) = 0
             /\ r.Similarity >= Points(90)
       /\ m_pc = "done" => matches_for_review = strict_res \o fuzzy_res

\* C14 witness: a Tier 1 pass has ended with an exact and an approximate
\* record, both in the review list.
C14_Witness ==
    /\ PassDone("Tier 1")
    /\ \E r \in Range(matches_for_review) : r.Match_Type = "Strict"
    /\ \E r \in Range(matches_for_review) : r.Match_Type = "Fuzzy (>=90)"

\* C15: Tier 2 routing. Every exact record of a Tier 2 entity goes to the
\* automatic list, every approximate record (accepted only at threshold
\* 100) goes to the review list, and no approximate match is ever accepted
\* automatically.
C15_Tier2Routing ==
    tier_name = "Tier 2" =>
       /\ \A r \in Range(matches_auto) : r.Match_Type = "Strict"
       /\ \A r \in Range(fuzzy_res) : r.Similarity = Points(100)
       /\ m_pc = "done" =>
             /\ matches_auto = strict_res
             /\ matches_for_review = fuzzy_res

\* C15 witness: a Tier 2 pass has ended with an exact record in the
\* automatic list and an approximate record in the review list.
C15_Witness ==
    /\ PassDone("Tier 2")
    /\ \E r \in Range(matches_auto) : r.Match_Type = "Strict"
    /\ \E r \in Range(matches_for_review) : r.Match_Type = "Fuzzy (>=100)"

\* C16: Tier 3 is exact-only. No approximate record is ever produced for a
\* Tier 3 entity; an entity with an exact candidate match gives one record,
\* in the automatic list; an entity without one gives no record and is in
\* neither list.
C16_Tier3ExactOnly ==
    tier_name = "Tier 3" =>
       /\ FuzzyRecords = {}
       /\ matches_for_review = <<>>
       /\ m_pc = "done" =>
             \A i \in 1..Len(df_target) :
                LET e == df_target[i] IN
                   /\ e.clean_name \in acquiror_clean_set =>
                         /\ RecordsOf(matches_auto, e.assignee) = 1
                         /\ \A r \in Range(matches_auto) :
                               r.Assignee_Original = e.assignee
                               => r.Match_Type = "Strict"
                   /\ e.clean_name \notin acquiror_clean_set =>
                         /\ RecordsOf(matches_auto, e.assignee) = 0
                         /\ RecordsOf(strict_res, e.assignee) = 0

\* C16 witness: a Tier 3 pass has ended; one entity is accepted
\* automatically, and another, which a threshold of 90 would have matched
\* approximately, has no record.
C16_Witness ==
    /\ PassDone("Tier 3")
    /\ Len(matches_auto) = 1
    /\ \E i \in 1..Len(df_target) :
          /\ RecordsOf(matches_auto, df_target[i].assignee) = 0
          /\ extractOne(df_target[i].clean_name, acquiror_clean_list, 90).found

(***************************************************************************)
(* Properties of repeated runs, under SpecRun.                             *)
(***************************************************************************)
\* C17: determinism. Two runs on the same query, the same candidate set and
\* the same policy return the same result (the same matched candidate and
\* score, or both nothing), also when several candidates tie for the
\* maximum score.
C17_Deterministic ==
    Len(run_results) = 2 =>
       (Range(run_lists[1]) = Range(run_lists[2])
        => run_results[1] = run_results[2])

(***************************************************************************)
(* Properties of the approximate step, under SpecMatch.                    *)
(***************************************************************************)
\* The similarity of every clean name of the one table to every clean name
\* of the other.
ScoreTable ==
    [q \in { CleanTable[n] : n \in TargetNames },
     c \in { CleanTable[n] : n \in MainNames } |-> token_set_ratio(q, c, 0)]
    @@ << >>

\* The similarity of the query to the k-th candidate.
ScoreOf(query, k) == ScoreTable[query, acquiror_clean_list[k]]

\* The candidates with the maximum similarity over the whole list.
BestIndices(query) ==
    { k \in 1..Len(acquiror_clean_list) :
        \A j \in 1..Len(acquiror_clean_list) : ScoreOf(query, k) >= ScoreOf(query, j) }

\* The first of them in the list's order.
FirstBest(query) ==
    CHOOSE k \in BestIndices(query) : \A j \in BestIndices(query) : k <= j

\* The records the approximate step owes for the first n unmatched rows.
RECURSIVE OwedFuzzy(_)
OwedFuzzy(n) ==
    IF n = 0 THEN <<>>
    ELSE LET e == unmatched_list[n]
             reached == /\ acquiror_clean_list # <<>>
                        /\ ScoreOf(e.clean_name, FirstBest(e.clean_name))
                              >= Points(fuzzy_threshold(tier_name))
         IN  IF reached
             THEN Append(OwedFuzzy(n - 1),
                         MatchRecord(e.assignee, e.clean_name,
                                     acquiror_clean_list[FirstBest(e.clean_name)],
                                     FuzzyType(tier_name),
                                     ScoreOf(e.clean_name, FirstBest(e.clean_name)),
                                     tier_name))
             ELSE OwedFuzzy(n - 1)

\* C18: the approximate step returns the candidate with the maximum
\* similarity over the whole candidate list when that maximum reaches the
\* threshold, the first such candidate in list order on a tie, and nothing
\* (no match record) when no candidate reaches the threshold.
C18_BestCandidate ==
    /\ m_pc = "fuzzy" => fuzzy_res = OwedFuzzy(m_row - 1)
    /\ (m_pc \in {"route", "done"} /\ HasFuzzy(tier_name))
          => fuzzy_res = OwedFuzzy(Len(unmatched_list))

\* C18 witness: the approximate step is over; a row got the first of two
\* candidates that tie for the maximum, a row got a candidate that is not
\* the first of the list, or a row whose best candidate is under the
\* threshold got nothing.
C18_Witness ==
    /\ m_pc = "done"
    /\ HasFuzzy(tier_name)
    /\ Len(acquiror_clean_list) = 2
    /\ \E r \in Range(fuzzy_res) :
          /\ Cardinality(BestIndices(r.Assignee_Clean)) = 2
          /\ r.Matched_Acquiror_Clean = acquiror_clean_list[1]
    /\ \E i \in 1..Len(unmatched_list) :
          /\ RecordsOf(fuzzy_res, unmatched_list[i].assignee) = 0
          /\ ScoreOf(unmatched_list[i].clean_name, 1) < Points(90)
          /\ ScoreOf(unmatched_list[i].clean_name, 2) < Points(90)

(***************************************************************************)
(* Properties of the worker pool, under SpecPool.                          *)
(***************************************************************************)
\* What the sequential loop appends for the rows, in row order: one record
\* for each row whose best candidate reaches the threshold.
SequentialFuzzy(rows, choices, threshold, tier) ==
    LET matched == SelectSeq(rows, LAMBDA r :
                       extractOneTable[r.clean_name, choices, threshold].found)
    IN  [k \in 1..Len(matched) |->
            LET match_result ==
                    extractOneTable[matched[k].clean_name, choices, threshold]
            IN  MatchRecord(matched[k].assignee, matched[k].clean_name,
                            match_result.choice, FuzzyType(tier),
                            match_result.score, tier)]

\* C19: the unmatched rows are split into as many contiguous batches as
\* there are workers, and the batches laid end to end are the unmatched
\* list; nothing is added to fuzzy_res while the workers run, and a task
\* that completed holds what the sequential loop gives for its batch; once
\* the approximate step is over, by the pool under whichever order the
\* workers ran and completed in or by the sequential loop, fuzzy_res is the
\* sequence the sequential loop gives for the unmatched rows, the candidate
\* list and the threshold.
C19_ParallelEqualsSequential ==
    /\ m_pc = "workers" =>
          /\ Len(chunks) = n_cores
          /\ Flatten(chunks) = unmatched_list
          /\ fuzzy_res = <<>>
          /\ \A k \in 1..Len(task) :
                task[k] = "done" =>
                   results[k] = SequentialFuzzy(chunks[k], acquiror_clean_list,
                                                fuzzy_threshold(tier_name),
                                                tier_name)
    /\ m_pc \in {"route", "done"} =>
          fuzzy_res = SequentialFuzzy(unmatched_list, acquiror_clean_list,
                                      fuzzy_threshold(tier_name), tier_name)

\* C19 witness: a pass over more than 100 unmatched rows went through a
\* pool of three or more workers with batches of unequal length, the first
\* batch was not the first to complete, and some rows but not all of them
\* got a record.
C19_Witness ==
    /\ m_pc = "done"
    /\ Len(unmatched_list) > 100
    /\ n_cores >= 3
    /\ Len(finished) = n_cores
    /\ finished[1] # 1
    /\ Len(chunks[1]) # Len(chunks[n_cores])
    /\ fuzzy_res # <<>>
    /\ Len(fuzzy_res) < Len(unmatched_list)

(***************************************************************************)
(* Properties of validate_matches, under SpecAudit.                        *)
(***************************************************************************)
\* The assignee names that two rows of the frame give different acquirors.
ManyMapped(df) ==
    { a \in { df[i].Assignee_Original : i \in 1..Len(df) } :
        \E i, j \in 1..Len(df) :
            /\ df[i].Assignee_Original = a
            /\ df[j].Assignee_Original = a
            /\ df[i].Matched_Acquiror_Clean # df[j].Matched_Acquiror_Clean }

\* The one-to-many messages of the returned list.
OneToManyIssues == SelectSeq(a_issues, LAMBDA m : m.check = "one_to_many")

\* C20: validate_matches returns a one-to-many message, and a one_to_many
\* entry in stats, exactly when some Assignee_Original of the frame has rows
\* with more than one distinct Matched_Acquiror_Clean; the message and the
\* entry carry the number of such names; an empty frame gives an empty list
\* and an empty dict; and the call leaves the frame as it was.
C20_OneToManyAudit ==
    /\ [](a_pc = "returned" =>
            /\ (OneToManyIssues # <<>>) <=> (ManyMapped(df_matches) # {})
            /\ ("one_to_many" \in DOMAIN a_stats) <=> (ManyMapped(df_matches) # {})
            /\ Len(OneToManyIssues) <= 1
            /\ \A k \in 1..Len(OneToManyIssues) :
                  OneToManyIssues[k].count = Cardinality(ManyMapped(df_matches))
            /\ "one_to_many" \in DOMAIN a_stats =>
                  a_stats["one_to_many"] = Cardinality(ManyMapped(df_matches))
            /\ df_matches = <<>> => (a_issues = <<>> /\ DOMAIN a_stats = {}))
    /\ [][df_matches' = df_matches]_vars

\* C20 witness: the call returned on a frame of three rows in which one
\* assignee has two different acquirors and the other assignee has one; the
\* message and the stats entry count one name.
C20_Witness ==
    /\ a_pc = "returned"
    /\ Len(df_matches) = 3
    /\ df_matches[1].Assignee_Original = df_matches[2].Assignee_Original
    /\ df_matches[1].Matched_Acquiror_Clean # df_matches[2].Matched_Acquiror_Clean
    /\ df_matches[3].Assignee_Original # df_matches[1].Assignee_Original
    /\ Len(OneToManyIssues) = 1
    /\ OneToManyIssues[1].count = 1
    /\ a_stats["one_to_many"] = 1

(***************************************************************************)
(* Properties of stage 4B, under SpecFill.                                 *)
(***************************************************************************)
\* The review file lists the acquiror.
Reviewed(name) ==
    \E k \in 1..Len(verified_file) : verified_file[k].Acquiror_Original = name

\* The first row of the review file that lists the acquiror.
FirstListed(name) ==
    verified_file[CHOOSE k \in 1..Len(verified_file) :
                     /\ verified_file[k].Acquiror_Original = name
                     /\ \A j \in 1..(k - 1) :
                           verified_file[j].Acquiror_Original # name]

\* What the first listed match gives for an identifier column: the matched
\* name itself, or the cell of the first Compustat record of that name.
ReviewedCell(name, c) ==
    LET matched == FirstListed(name).Matched_Compustat_Original
        listed == { k \in 1..Len(df_comp) :
                      ~isna(matched) /\ df_comp[k].conm = matched }
    IN  IF c = "compustat_name" THEN matched
        ELSE IF listed = {} THEN NA
        ELSE df_comp[CHOOSE k \in listed : \A j \in listed : k <= j][c]

\* C21: while the table is filled and once it is saved, it has the rows of
\* the main table, in order and under the same acquiror names; an
\* identifier cell that held a value holds it still; a cell that changed
\* belongs to a row whose acquiror the review file lists, and holds what
\* the first listed row of that acquiror gives; a row whose acquiror is not
\* listed is as it was; and every blank cell of a listed acquiror's row
\* that the loop has passed holds what the first listed row gives.
C21_FillsBlanksOnly ==
    f_pc \in {"fill", "saved"} =>
        /\ Len(df_final) = Len(df_main)
        /\ \A i \in 1..Len(df_main) :
              LET name == df_main[i].acquiror_name IN
              /\ df_final[i].acquiror_name = name
              /\ ~Reviewed(name) => df_final[i] = df_main[i]
              /\ \A c \in IdColumns :
                    /\ ~isna(df_main[i][c]) => df_final[i][c] = df_main[i][c]
                    /\ df_final[i][c] # df_main[i][c] =>
                          /\ Reviewed(name)
                          /\ df_final[i][c] = ReviewedCell(name, c)
                    /\ (i < f_row /\ Reviewed(name) /\ isna(df_main[i][c])) =>
                          df_final[i][c] = ReviewedCell(name, c)

\* The table is saved; the review file lists an acquiror twice with two
\* different matches; a row of that acquiror kept its gvkey and had its
\* blank cusip filled from the first match; another row, whose acquiror is
\* not listed, is unchanged.
C21_Witness ==
    /\ f_pc = "saved"
    /\ Len(verified_file) = 2
    /\ verified_file[1].Acquiror_Original = verified_file[2].Acquiror_Original
    /\ verified_file[1].Matched_Compustat_Original
          # verified_file[2].Matched_Compustat_Original
    /\ \E i, j \in 1..Len(df_main) :
          /\ df_main[i].acquiror_name = verified_file[1].Acquiror_Original
          /\ df_main[i].gvkey = Held
          /\ df_final[i].gvkey = Held
          /\ isna(df_main[i].cusip)
          /\ df_final[i].cusip = CompId("c", "1")
          /\ df_final[i].compustat_name = AcmeTechnology
          /\ ~Reviewed(df_main[j].acquiror_name)
          /\ df_final[j] = df_main[j]

(***************************************************************************)
(* Counters and conflict log of stage 2, under Spec.                       *)
(***************************************************************************)
\* The sum of a column of source_stats.
RECURSIVE SumColumn(_, _)
SumColumn(stats, column) ==
    IF stats = <<>> THEN 0
    ELSE stats[1][column] + SumColumn(Tail(stats), column)

\* C22: every entry of source_stats has Valid_Rows = New_Mappings +
\* Duplicates + Conflicts; between two sources and after the last one, the
\* mapping has as many keys as the New_Mappings of the entries add up to and
\* the conflict log has as many records as their Conflicts add up to;
\* inside a source, the three counters add up to the number of rows
\* processed, and the mapping and the log are ahead of the entries by
\* count_new and count_conflict.
C22_CountersConserved ==
    /\ \A i \in 1..Len(source_stats) :
          source_stats[i].Valid_Rows =
             source_stats[i].New_Mappings + source_stats[i].Duplicates
             + source_stats[i].Conflicts
    /\ pc # "rows" =>
          /\ Cardinality(DOMAIN master_dict) =
                SumColumn(source_stats, "New_Mappings")
          /\ Len(conflicts) = SumColumn(source_stats, "Conflicts")
    /\ pc = "rows" =>
          /\ count_new + count_duplicate + count_conflict = row - 1
          /\ Cardinality(DOMAIN master_dict) =
                SumColumn(source_stats, "New_Mappings") + count_new
          /\ Len(conflicts) = SumColumn(source_stats, "Conflicts") + count_conflict

\* The run is over after two processed sources which, between them, had a
\* new mapping, a duplicate and a conflict.
C22_Witness ==
    /\ pc = "done"
    /\ Len(source_stats) = 2
    /\ SumColumn(source_stats, "New_Mappings") >= 1
    /\ SumColumn(source_stats, "Duplicates") >= 1
    /\ SumColumn(source_stats, "Conflicts") >= 1
    /\ source_stats[2].Valid_Rows >= 2

\* Every record of the log names two different targets, the first of which
\* is the one the mapping holds for the record's key.
ConflictsConsistent ==
    \A i \in 1..Len(conflicts) :
        /\ conflicts[i].Existing_Acquiror # conflicts[i].New_Acquiror
        /\ conflicts[i].Assignee \in DOMAIN master_dict
        /\ master_dict[conflicts[i].Assignee] = conflicts[i].Existing_Acquiror

\* C23: in every state the log is consistent with the mapping, and every
\* step leaves the records already logged in place and unchanged (the log
\* only grows at its end).
C23_ConflictLogAppendOnly ==
    /\ []ConflictsConsistent
    /\ [][/\ Len(conflicts') >= Len(conflicts)
          /\ SubSeq(conflicts', 1, Len(conflicts)) = conflicts]_vars

\* The run is over with two records in the log, the second appended
\* by a later source than the first.
C23_Witness ==
    /\ pc = "done"
    /\ Len(conflicts) = 2
    /\ Len(source_stats) = 2
    /\ source_stats[1].Conflicts = 1
    /\ source_stats[2].Conflicts = 1
    /\ master_dict[conflicts[2].Assignee] = conflicts[1].Existing_Acquiror

(***************************************************************************)
(* Properties of a whole run of stage 1, under SpecStage.                  *)
(***************************************************************************)
\* The records made so far: those handed to the two channels and those of
\* the running pass that main has not received yet.
RecordsSoFar ==
    matches_for_review \o matches_auto
    \o (IF m_pc \in {"strict", "fuzzy", "route"} THEN strict_res \o fuzzy_res
        ELSE <<>>)

\* The number of records of a list that name the assignee.
TimesMatched(list, assignee) ==
    Cardinality({ k \in 1..Len(list) : list[k].Assignee_Original = assignee })

\* The three passes are over.
RunOver == m_pc = "done" /\ tier_name = "Tier 3"

\* The tier whose frame holds the entity.
TierOf(e) ==
    CHOOSE t \in Tiers : \E i \in 1..Len(TierFrame(t)) : TierFrame(t)[i] = e

\* The entity's clean name is no candidate, and its tier has no approximate
\* step or no candidate reaches the tier's threshold.
MatchesNothing(e) ==
    /\ e.clean_name \notin acquiror_clean_set
    /\ \/ ~HasFuzzy(TierOf(e))
       \/ ~extractOne(e.clean_name, acquiror_clean_list,
                      fuzzy_threshold(TierOf(e))).found

\* C24: at every point of the run each entity of the ranked table is named
\* by at most one record, over the two channels and the pass in progress
\* together; no entity is named in both channels; no entity has an exact
\* and an approximate record; and when the run is over an entity that
\* matches nothing is named in neither channel, while every record names an
\* entity of the table.
C24_OneRecordPerEntity ==
    /\ \A i \in 1..Len(df_summary) :
          LET e == df_summary[i] IN
          /\ TimesMatched(RecordsSoFar, e.assignee) <= 1
          /\ ~(/\ TimesMatched(matches_for_review, e.assignee) > 0
               /\ TimesMatched(matches_auto, e.assignee) > 0)
          /\ ~\E j, k \in 1..Len(RecordsSoFar) :
                /\ RecordsSoFar[j].Assignee_Original = e.assignee
                /\ RecordsSoFar[k].Assignee_Original = e.assignee
                /\ RecordsSoFar[j].Match_Type = "Strict"
                /\ RecordsSoFar[k].Match_Type # "Strict"
          /\ (RunOver /\ MatchesNothing(e)) =>
                /\ TimesMatched(matches_for_review, e.assignee) = 0
                /\ TimesMatched(matches_auto, e.assignee) = 0
    /\ \A k \in 1..Len(RecordsSoFar) :
          \E i \in 1..Len(df_summary) :
             df_summary[i].assignee = RecordsSoFar[k].Assignee_Original

\* The run is over: the Tier 1 entity was matched approximately and waits
\* for review, a Tier 2 entity was matched exactly and accepted, and a
\* Tier 3 entity that matches nothing is in neither channel.
C24_Witness ==
    /\ RunOver
    /\ Len(matches_for_review) = 1
    /\ matches_for_review[1].Match_Type # "Strict"
    /\ matches_for_review[1].Tier = "Tier 1"
    /\ Len(matches_auto) = 1
    /\ matches_auto[1].Match_Type = "Strict"
    /\ matches_auto[1].Tier = "Tier 2"
    /\ matches_auto[1].Assignee_Original
          # matches_for_review[1].Assignee_Original
    /\ \E i \in 1..Len(df_summary) :
          /\ MatchesNothing(df_summary[i])
          /\ TierOf(df_summary[i]) = "Tier 3"
          /\ TimesMatched(RecordsSoFar, df_summary[i].assignee) = 0

(***************************************************************************)
(* The number of workers, under SpecPool.                                  *)
(***************************************************************************)
\* C25: once the worker count has been computed for a pass that takes the
\* parallel path, on a machine of at least one core, it is between 1 and
\* 4, it is at most the core count minus one when that is positive, and the
\* pass has not failed on dispatch.
C25_WorkerCountBound ==
    (/\ m_pc \in {"workers", "route", "done", "failed"}
     /\ use_parallel(tier_name)
     /\ Len(unmatched_list) > 100
     /\ machine_cores >= 1) =>
        /\ 1 <= n_cores
        /\ n_cores <= 4
        /\ machine_cores - 1 > 0 => n_cores <= machine_cores - 1
        /\ m_pc # "failed"

=============================================================================
